---- MODULE Spec2Model ----
(***************************************************************************)
(* A model of the diff-to-review pipeline of ai-code-reviewer.             *)
(*                                                                         *)
(* The module holds several specifications, one per part of the pipeline:  *)
(*   SpecRetry    withRetry, one call followed attempt by attempt          *)
(*   SpecLimiter  withRateLimit under concurrent callers, with a clock     *)
(*   SpecValidate validateAIResponse and createComment on one finding      *)
(*   SpecAI       processFile's unit loop around getAIResponse             *)
(*   SpecDedup    the duplicate filter of main                             *)
(*   SpecPublish  createReviewComment: re-validation and batches           *)
(*   SpecMain     main: one run of the action, from the event to its end   *)
(*   SpecMerge    processFile: the merge of hunks into review units         *)
(*   SpecParse    the parse stages of one response of the model            *)
(*   SpecAnalyze  analyzeCode: the files of a diff in concurrent groups     *)
(*   SpecSimilar  isCommentSimilar on one pair of comment texts             *)
(*   SpecTerminates  the loops of a run, each for itself, under fairness    *)
(* Each specification moves its own group of variables and leaves the      *)
(* other groups at their idle values.                                      *)
(***************************************************************************)
EXTENDS Integers, Sequences, FiniteSets, TLC

VARIABLES
  \* ---- withRetry (unnamed/part_008:37-78), one call
  rPc,          \* "attempt" | "backoff" | "returned" | "thrown"
  attempt,      \* the loop variable of withRetry
  maxRetries,   \* the argument maxRetries
  delayMs,      \* the argument delayMs, reassigned on rate-limit errors
  lastError,    \* NoError, or the error caught last
  rResult,      \* 0, or the number of the attempt whose result was returned
  outcomes,     \* history: the outcome of every invocation of the operation
  delays,       \* history: every backoff wait started, in ms
  initialDelay, \* history: the argument delayMs as it was passed
  thrown,       \* history: what every failed attempt threw
  \* ---- withRateLimit (unnamed/part_008:5-25) under concurrent callers
  now,          \* Date.now()
  apiCallQueue, \* API_CALL_QUEUE: API name -> time of the last call (0: no entry)
  cPc,          \* per caller: "ready" | "limited" | "inOp" | "backoff" | "done"
  cApi,         \* per caller: the apiName it passes
  cAttempt,     \* per caller: withRetry's attempt of the current call
  cDelayMs,     \* per caller: withRetry's delayMs of the current call
  cWakeAt,      \* per caller: when its pending timer is due
  cCalls,       \* per caller: the calls of withRetry it has finished
  opGap,        \* history: API name -> the smallest time between two operation
                \* starts under that name so far (NoGap: fewer than two starts)
  \* ---- validateAIResponse and createComment applied to one finding
  vPc,          \* "idle" | "input" | "validated" | "commented"
  vFinding,     \* the finding, as parsed from the model's reply
  vFile,        \* the file: its field to
  vChunk,       \* the review unit: newStart, newLines
  vValid,       \* what validateAIResponse(vFinding) did
  vComment,     \* what createComment(vFile, vChunk, vFinding) did
  \* ---- processFile's unit loop and getAIResponse (main.ts:270-368)
  aPc,          \* "idle" | "unit" | "gotResponse" | "done" | "threw"
  aProvider,    \* AI_PROVIDER
  aCacheEnabled, \* CACHE_ENABLED
  aUnits,       \* mergedChunks
  aIdx,         \* the loop index i, from 1
  aResponse,    \* what getAIResponse did for the unit at hand
  aCalls,       \* the calls of the provider's endpoint it made for that
  aLookup,      \* what its cache lookup met: "none" (no lookup at hand) |
                \* "disabled" | "restoreThrows" | "restoreMiss" | "unreadable" |
                \* "expired" | "fresh"
  aCache,       \* the review cache: unit -> entry
  aComments,    \* comments
  \* ---- the duplicate filter of main (main.ts:612-725)
  dPc,          \* "idle" | "start" | "filtered" | "stored" | "done"
  dCandidates,  \* comments, as analyzeCode returned them
  dLive,        \* the comments already on the pull request
  dHistory,     \* the stored comment history of the pull request
  dHistorical,  \* historicalComments, as getCommentHistory returned them
  dFiltered,    \* filteredComments
  dSubmitted,   \* the list handed to createReviewComment
  dStored,      \* storeCommentHistory of this run wrote the history
  dPubFailed,   \* createReviewComment of this run threw
  dRun,         \* 1 for a run, 2 for a later run on the same findings
  dFirstFiltered, \* history: the survivors of the run before this one
  \* ---- createReviewComment (services/github.ts:273-584)
  pPc,          \* "idle" | "start" | "batching" | "done" | "threw"
  pComments,    \* the argument comments
  pDiff,        \* the diff fetched by the call: file -> chunks
  pFileLines,   \* file -> the number of lines of its content at the head commit
  pFiltered,    \* filteredComments
  pBatch,       \* the number of the batch at hand, from 1
  pSent,        \* history: every comment entry passed to createReview
  pSuccessCount, \* successCount
  pFailureCount, \* failureCount
  pFailed,      \* failedComments
  pValidated,   \* history: validatedComments, one entry per comment, a dropped
                \* comment (null) being [keep |-> FALSE]
  pFetched,     \* history: for every comment, whether getContent would answer
  pOutcomes,    \* history: what became of every batch so far, in order:
                \* "ok" | "failed" | "skipped"
  \* ---- main (main.ts:464-764), one run of the action on one file
  mPc,          \* "idle" | "start" | "analyzed" | "filtered" | "stored" |
                \* "publishing" | "ended"
  mEvent,       \* prDetails.eventType
  mCacheEnabled, \* CACHE_ENABLED
  mSummaryEnabled, \* ENABLE_SUMMARY
  mReviews,     \* the reviews of the model's reply (none without a reply)
  mComments,    \* comments, as analyzeCode returned them
  mLive,        \* the comments already on the pull request
  mHistory,     \* the stored comment history of the pull request
  mHistorical,  \* historicalComments, as getCommentHistory returned them
  mFiltered,    \* filteredComments, before the summary is put in front
  mSubmitted,   \* the list handed to createReviewComment
  mStoreOutcome, \* "none" | "disabled" | "failed" | "saved"
  mReviewCalls, \* history: the calls of pulls.createReview made
  mSuccessCount, \* successCount of createReviewComment
  mPubThrew,    \* createReviewComment threw
  mHistoryReads, \* history: the reads of the stored comment history
  mHistoryWrites, \* history: the writes of the stored comment history
  mLogged,      \* the comments written to the log in place of a review
  mStatus,      \* "running" | "success" | "failed" (core.setFailed)
  mInputError,  \* validateConfig, getPRDetails or getDiff threw
  mConfig,      \* AI_PROVIDER and which of the credentials are set
  mEventData,   \* the file at GITHUB_EVENT_PATH: "ok" | "missing" | "unparsable" |
                \* "incomplete"
  mModelCalls,  \* history: the requests for a response of the model
  \* ---- the merge loop and the unit loop of processFile (main.ts:208-297)
  gPc,          \* "idle" | "start" | "skipped" | "merging" | "units" | "done"
  gChunks,      \* file.chunks
  gIdx,         \* the index i of the merge loop, from 1
  gCurrent,     \* currentChunk: <<>> for null, or <<chunk>>
  gMerged,      \* mergedChunks
  gUnitIdx,     \* the index i of the unit loop, from 1
  gSent,        \* history: the units passed to createPrompt and getAIResponse
  \* ---- the parse stages of getOpenAIResponse and getAnthropicResponse
  sPc,          \* "idle" | "strict" | "largest" | "fragments" | "done"
  sProvider,    \* AI_PROVIDER
  sContent,     \* the content of the response, as a sequence of tokens
  sTried,       \* history: the stages tried, in order
  sResult,      \* what the function returns: AIResponseArray | null
  \* ---- analyzeCode (main.ts:379-458, part_004:269-361)
  zPc,          \* "idle" | "loop" | "awaiting" | "done"
  zVariant,     \* which analyzeCode runs: "main.ts" | "part_004"
  zFiles,       \* filesToAnalyze
  zI,           \* the index i of the group loop
  zRun,         \* for every file: where its callback is, the results of its
                \* units and the comments it returns
  zOrder,       \* history: the files in the order in which they ended
  zComments,    \* comments
  processedFiles, \* main.ts:391
  skippedFiles, \* main.ts:392
  erroredFiles, \* main.ts:393
  \* ---- isCommentSimilar (main.ts:41-82) on one pair of texts
  yPc,          \* "idle" | "start" | "done"
  yNew,         \* newComment
  yExisting,    \* existingComment
  ySimilar      \* what the function returned

retryVars == <<rPc, attempt, maxRetries, delayMs, lastError, rResult, outcomes, delays,
              initialDelay, thrown>>
limVars == <<now, apiCallQueue, cPc, cApi, cAttempt, cDelayMs, cWakeAt, cCalls, opGap>>

valVars == <<vPc, vFinding, vFile, vChunk, vValid, vComment>>

aiVars == <<aPc, aProvider, aCacheEnabled, aUnits, aIdx, aResponse, aCalls, aLookup, aCache,
           aComments>>

dedupVars == <<dPc, dCandidates, dLive, dHistory, dHistorical, dFiltered, dSubmitted, dStored,
               dPubFailed, dRun, dFirstFiltered>>

pubVars == <<pPc, pComments, pDiff, pFileLines, pFiltered, pBatch, pSent, pSuccessCount,
            pFailureCount, pFailed, pOutcomes, pValidated, pFetched>>

mainVars == <<mPc, mEvent, mCacheEnabled, mSummaryEnabled, mReviews, mComments, mLive, mHistory,
              mHistorical, mFiltered, mSubmitted, mStoreOutcome, mReviewCalls, mSuccessCount,
              mPubThrew, mHistoryReads, mHistoryWrites, mLogged, mStatus, mInputError,
              mConfig, mEventData, mModelCalls>>

mergeVars == <<gPc, gChunks, gIdx, gCurrent, gMerged, gUnitIdx, gSent>>

parseVars == <<sPc, sProvider, sContent, sTried, sResult>>

analyzeVars == <<zPc, zVariant, zFiles, zI, zRun, zOrder, zComments, processedFiles,
                 skippedFiles, erroredFiles>>

similarVars == <<yPc, yNew, yExisting, ySimilar>>

vars == <<retryVars, limVars, valVars, aiVars, dedupVars, pubVars, mainVars, mergeVars,
          parseVars, analyzeVars, similarVars>>

(***************************************************************************)
(* Program constants (src/src/config/index.ts)                             *)
(***************************************************************************)
MAX_RETRIES == 3
RETRY_DELAY == 1000
MAX_RETRY_DELAY == 30000
RATE_LIMIT_DELAY == 1000

(***************************************************************************)
(* Bounds of the model                                                     *)
(***************************************************************************)
\* withRetry is explored for maxRetries in 1..MaxRetriesArg
MaxRetriesArg == 4

\* concurrent callers of the rate limiter (files of one group: CONCURRENT_FILES)
NCallers == 2
\* calls of withRetry each caller makes, one after the other (review units)
MaxCalls == 2
\* the clock advances in steps of TimeStep ms, from StartTime up to MaxTime
TimeStep == 500
StartTime == 2000
MaxTime == 4000

Min(a, b) == IF a <= b THEN a ELSE b
Max(a, b) == IF a >= b THEN a ELSE b
Abs(a) == IF a < 0 THEN 0 - a ELSE a

(***************************************************************************)
(* JavaScript values, as far as the pipeline inspects them                 *)
(***************************************************************************)
\* A string is a sequence of characters; LongRun stands for a run of
\* MAX_COMMENT_LENGTH characters "x" (so that strings longer than GitHub's
\* limit can be written down).
MAX_COMMENT_LENGTH == 65536
LongRun == "x*65536"

RECURSIVE StrLen(_)
StrLen(s) ==
  IF s = <<>> THEN 0
  ELSE (IF Head(s) = LongRun THEN MAX_COMMENT_LENGTH ELSE 1) + StrLen(Tail(s))

\* The characters \s matches that occur in the model (the mis-encoded warning
\* emoji of createComment holds a no-break space, U+00A0).
WhiteSpace == {" ", "\n", "\t", "u00A0"}

RECURSIVE TrimStart(_)
TrimStart(s) ==
  IF s # <<>> /\ Head(s) \in WhiteSpace THEN TrimStart(Tail(s)) ELSE s

RECURSIVE TrimEnd(_)
TrimEnd(s) ==
  IF s # <<>> /\ s[Len(s)] \in WhiteSpace THEN TrimEnd(SubSeq(s, 1, Len(s) - 1)) ELSE s

\* String.prototype.trim
Trim(s) == TrimEnd(TrimStart(s))

\* String.prototype.includes
Includes(s, t) ==
  \E i \in 0..(Len(s) - Len(t)) : SubSeq(s, i + 1, i + Len(t)) = t

LowerLetters == <<"a", "b", "c", "d", "e", "f", "g", "h", "i", "j", "k", "l", "m", "n", "o", "p", "q", "r", "s", "t", "u", "v", "w", "x", "y", "z">>
UpperLetters == <<"A", "B", "C", "D", "E", "F", "G", "H", "I", "J", "K", "L", "M", "N", "O", "P", "Q", "R", "S", "T", "U", "V", "W", "X", "Y", "Z">>

ToUpperChar(c) ==
  IF \E i \in 1..26 : LowerLetters[i] = c
  THEN UpperLetters[CHOOSE i \in 1..26 : LowerLetters[i] = c] ELSE c

ToLowerChar(c) ==
  IF \E i \in 1..26 : UpperLetters[i] = c
  THEN LowerLetters[CHOOSE i \in 1..26 : UpperLetters[i] = c] ELSE c

\* String.prototype.toUpperCase / toLowerCase
ToUpperCase(s) == [i \in 1..Len(s) |-> ToUpperChar(s[i])]
ToLowerCase(s) == [i \in 1..Len(s) |-> ToLowerChar(s[i])]

\* A number is NaN or a finite decimal m / 10^e (JSON cannot write an infinity).
Digits == <<"0", "1", "2", "3", "4", "5", "6", "7", "8", "9">>
IsDigit(c) == \E i \in 1..10 : Digits[i] = c
DigitValue(c) == (CHOOSE i \in 1..10 : Digits[i] = c) - 1

RECURSIVE Pow10(_)
Pow10(e) == IF e = 0 THEN 1 ELSE 10 * Pow10(e - 1)

NaN == [k |-> "nan", m |-> 0, e |-> 0]

RECURSIVE Fin(_, _)
Fin(m, e) ==
  IF e > 0 /\ m % 10 = 0 THEN Fin(m \div 10, e - 1) ELSE [k |-> "fin", m |-> m, e |-> e]

IntNum(i) == Fin(i, 0)
IsNaN(a) == a.k = "nan"
NumLess(a, b) == ~IsNaN(a) /\ ~IsNaN(b) /\ a.m * Pow10(b.e) < b.m * Pow10(a.e)
NumLeq(a, b) == ~IsNaN(a) /\ ~IsNaN(b) /\ a.m * Pow10(b.e) <= b.m * Pow10(a.e)
IsInteger(a) == ~IsNaN(a) /\ a.e = 0
\* Math.min / Math.max on numbers that are not NaN
NumMin(a, b) == IF NumLeq(a, b) THEN a ELSE b
NumMax(a, b) == IF NumLeq(a, b) THEN b ELSE a

RECURSIVE DigitsValue(_)
DigitsValue(s) ==
  IF s = <<>> THEN 0 ELSE DigitsValue(SubSeq(s, 1, Len(s) - 1)) * 10 + DigitValue(s[Len(s)])

\* StringToNumber (ECMA-262 7.1.4.1.1) on decimal literals: white space is
\* trimmed, the empty string is 0, then [+-] digits [. digits] or [+-] . digits;
\* anything else is NaN.
StringToNumber(s) ==
  LET t == Trim(s)
      signed == t # <<>> /\ Head(t) \in {"-", "+"}
      body == IF signed THEN Tail(t) ELSE t
      dots == {i \in 1..Len(body) : body[i] = "."}
      dot == IF dots = {} THEN Len(body) + 1 ELSE CHOOSE i \in dots : TRUE
      intPart == SubSeq(body, 1, dot - 1)
      fracPart == SubSeq(body, dot + 1, Len(body))
      wellFormed == /\ Cardinality(dots) <= 1
                    /\ \A i \in 1..Len(body) : i \notin dots => IsDigit(body[i])
                    /\ Len(intPart) + Len(fracPart) > 0
      mag == DigitsValue(intPart \o fracPart)
  IN IF t = <<>> THEN IntNum(0)
     ELSE IF ~wellFormed THEN NaN
     ELSE Fin(IF Head(t) = "-" THEN 0 - mag ELSE mag, Len(fracPart))

RECURSIVE NatToString(_)
NatToString(n) ==
  IF n < 10 THEN <<Digits[n + 1]>> ELSE NatToString(n \div 10) \o <<Digits[(n % 10) + 1]>>

RECURSIVE PadZeros(_, _)
PadZeros(s, w) == IF Len(s) >= w THEN s ELSE PadZeros(<<"0">> \o s, w)

\* Number::toString of a finite decimal (template literal `${lineNumber}`)
NumToString(a) ==
  IF IsNaN(a) THEN <<"N", "a", "N">>
  ELSE LET mag == Abs(a.m)
           whole == NatToString(mag \div Pow10(a.e))
           frac == IF a.e = 0 THEN <<>>
                   ELSE <<".">> \o PadZeros(NatToString(mag % Pow10(a.e)), a.e)
       IN (IF a.m < 0 THEN <<"-">> ELSE <<>>) \o whole \o frac

\* A value: t is its type, n its number, s its string, b its boolean.
JsNumber(x) == [t |-> "number", n |-> x, s |-> <<>>, b |-> FALSE]
JsString(x) == [t |-> "string", n |-> NaN, s |-> x, b |-> FALSE]
JsBoolean(x) == [t |-> "boolean", n |-> NaN, s |-> <<>>, b |-> x]
JsNull == [t |-> "null", n |-> NaN, s |-> <<>>, b |-> FALSE]
JsUndefined == [t |-> "undefined", n |-> NaN, s |-> <<>>, b |-> FALSE]
JsObject == [t |-> "object", n |-> NaN, s |-> <<>>, b |-> FALSE]

\* Number(value) (ToNumber); JsObject stands for {}
ToNumber(v) ==
  CASE v.t = "number" -> v.n
    [] v.t = "string" -> StringToNumber(v.s)
    [] v.t = "boolean" -> IntNum(IF v.b THEN 1 ELSE 0)
    [] v.t = "null" -> IntNum(0)
    [] OTHER -> NaN

\* ToBoolean
Truthy(v) ==
  CASE v.t = "number" -> ~IsNaN(v.n) /\ v.n.m # 0
    [] v.t = "string" -> v.s # <<>>
    [] v.t = "boolean" -> v.b
    [] v.t = "object" -> TRUE
    [] OTHER -> FALSE

(***************************************************************************)
(* validateAIResponse (utils/index.ts) and createComment (services/ai.ts)  *)
(***************************************************************************)
\* What a call does: it returns val, or throws.
Returns(v) == [kind |-> "return", val |-> v]
Throws == [kind |-> "throw", val |-> FALSE]

\* String(value), as a template literal applies it
JsToString(v) ==
  CASE v.t = "string" -> v.s
    [] v.t = "number" -> NumToString(v.n)
    [] v.t = "boolean" -> IF v.b THEN <<"t", "r", "u", "e">> ELSE <<"f", "a", "l", "s", "e">>
    [] v.t = "null" -> <<"n", "u", "l", "l">>
    [] v.t = "undefined" -> <<"u", "n", "d", "e", "f", "i", "n", "e", "d">>
    [] OTHER -> <<"[", "o", "b", "j", "e", "c", "t", " ", "O", "b", "j", "e", "c", "t", "]">>

SeverityError == <<"e", "r", "r", "o", "r">>
SeverityWarning == <<"w", "a", "r", "n", "i", "n", "g">>
SeverityInfo == <<"i", "n", "f", "o">>
\* const validSeverities = ["error", "warning", "info"]
ValidSeverities == {JsString(SeverityError), JsString(SeverityWarning), JsString(SeverityInfo)}

\* const lineNumber = Number(response.lineNumber); isNaN(lineNumber) || lineNumber <= 0
LineNumberRejected(n) == IsNaN(n) \/ NumLeq(n, IntNum(0))

validateAIResponse(response) ==
  IF LineNumberRejected(ToNumber(response.lineNumber)) THEN Returns(FALSE)
  ELSE IF ~Truthy(response.reviewComment) THEN Returns(FALSE)
  ELSE IF response.reviewComment.t # "string" THEN Throws   \* .trim is not a function
  ELSE IF StrLen(Trim(response.reviewComment.s)) = 0 THEN Returns(FALSE)
  ELSE IF StrLen(response.reviewComment.s) > MAX_COMMENT_LENGTH THEN Returns(FALSE)
  ELSE IF ~Truthy(response.filePath) \/ response.filePath.t # "string" THEN Returns(FALSE)
  ELSE IF response.severity \notin ValidSeverities THEN Returns(FALSE)
  ELSE Returns(TRUE)

\* The emoji literals of createComment, character by character as the source
\* file holds them.
EmojiDefault == <<"u00F0", "u0178", "u2019", "u00AC">>
EmojiError == <<"u00E2", "u203A", "u201D">>
EmojiWarning == <<"u00E2", "u0161", "u00A0", "u00EF", "u00B8">>
EmojiInfo == <<"u00E2", "u201E", "u00B9", "u00EF", "u00B8">>

SeverityEmoji(severity) ==
  IF severity = JsString(SeverityError) THEN EmojiError
  ELSE IF severity = JsString(SeverityWarning) THEN EmojiWarning
  ELSE IF severity = JsString(SeverityInfo) THEN EmojiInfo
  ELSE EmojiDefault

\* ${emoji} **${aiResponse.severity.toUpperCase()}**\n\n
SeverityHeader(severity) ==
  SeverityEmoji(severity) \o <<" ", "*", "*">> \o ToUpperCase(severity.s) \o <<"*", "*", "\n", "\n">>

NotePrefix == 
  <<"*", "*", "N", "o", "t", "e", ":", " ", "T", "h", "i", "s", " ", "c", "o", "m", "m", "e", "n", "t", " ",
    "w", "a", "s", " ", "o", "r", "i", "g", "i", "n", "a", "l", "l", "y", " ", "f", "o", "r", " ", "l", "i", "n", "e", " ">>
NoteSuffix == 
  <<" ", "b", "u", "t", " ", "w", "a", "s", " ", "a", "d", "j", "u", "s", "t", "e", "d", " ",
    "t", "o", " ", "f", "i", "t", " ", "i", "n", " ", "t", "h", "e", " ", "v", "i", "e", "w", "a", "b", "l", "e", " ", "d", "i", "f", "f", ".", "*", "*", "\n", "\n">>
\* **Note: This comment was originally for line ${lineNumber} but was adjusted
\*  to fit in the viewable diff.**\n\n
AdjustmentNote(n) == NotePrefix \o NumToString(n) \o NoteSuffix

NoSuggestion == [present |-> FALSE, code |-> <<>>, description |-> <<>>]

\* \n\n**Suggested Fix**:\n${description}\n(3 x u0060)suggestion\n${code}\n(3 x u0060)
SuggestionBlock(sg) ==
  IF sg.present /\ sg.code # <<>>
  THEN <<"\n", "\n", "*", "*", "S", "u", "g", "g", "e", "s", "t", "e", "d", " ", "F", "i", "x", "*", "*", ":", "\n">> \o sg.description \o <<"\n", "u0060", "u0060", "u0060", "s", "u", "g", "g", "e", "s", "t", "i", "o", "n", "\n">> \o sg.code \o <<"\n", "u0060", "u0060", "u0060">>
  ELSE <<>>

NoComment == [isNull |-> TRUE, path |-> <<>>, line |-> NaN, body |-> <<>>, side |-> "RIGHT"]

ChunkEnd(chunk) == chunk.newStart + chunk.newLines - 1

\* lineNumber < chunk.newStart || lineNumber > chunk.newStart + chunk.newLines - 1
OutsideChunk(n, chunk) ==
  NumLess(n, IntNum(chunk.newStart)) \/ NumLess(IntNum(ChunkEnd(chunk)), n)

AdjustedLineNoUpperClamp(n, chunk) == NumMax(n, IntNum(chunk.newStart))

\* Math.min(Math.max(lineNumber, chunk.newStart), chunk.newStart + chunk.newLines - 1)
AdjustedLine(n, chunk) ==
  NumMin(NumMax(n, IntNum(chunk.newStart)), IntNum(ChunkEnd(chunk)))

LineNumberNotCheckedForNaN(n) == FALSE

\* if (isNaN(lineNumber)) return null
LineNumberIsNaN(n) == IsNaN(n)

\* The comment texts of the model hold no fenced code block, and the
\* suggestion block is left as it is by the replace of lines 959-970 and
\* 1000-1011.
createComment(file, chunk, aiResponse) ==
  LET n == ToNumber(aiResponse.lineNumber)
      outside == OutsideChunk(n, chunk)
      body == SeverityHeader(aiResponse.severity)
              \o (IF outside THEN AdjustmentNote(n) ELSE <<>>)
              \o JsToString(aiResponse.reviewComment)
              \o SuggestionBlock(aiResponse.suggestion)
  IN IF file.to = <<>> THEN Returns(NoComment)
     ELSE IF LineNumberIsNaN(n) THEN Returns(NoComment)
     ELSE IF aiResponse.severity.t \notin {"string"} THEN Throws  \* .toUpperCase
     ELSE Returns([isNull |-> FALSE,
                   path |-> file.to,
                   line |-> IF outside THEN AdjustedLine(n, chunk) ELSE n,
                   body |-> body,
                   side |-> "RIGHT"])

OthersSimilar == <<retryVars, limVars, valVars, aiVars, dedupVars, pubVars, mainVars, mergeVars,
                   parseVars, analyzeVars>>
OthersValidate == <<retryVars, limVars, aiVars, dedupVars, pubVars, mainVars, mergeVars, parseVars, analyzeVars, similarVars>>
OthersAI == <<retryVars, limVars, valVars, dedupVars, pubVars, mainVars, mergeVars, parseVars, analyzeVars, similarVars>>
OthersDedup == <<retryVars, limVars, valVars, aiVars, pubVars, mainVars, mergeVars, parseVars, analyzeVars, similarVars>>
OthersMain == <<retryVars, limVars, valVars, aiVars, dedupVars, pubVars, mergeVars, parseVars, analyzeVars, similarVars>>
OthersMerge == <<retryVars, limVars, valVars, aiVars, dedupVars, pubVars, mainVars, parseVars, analyzeVars, similarVars>>
OthersPublish == <<retryVars, limVars, valVars, aiVars, dedupVars, mainVars, mergeVars, parseVars, analyzeVars, similarVars>>
OthersParse == <<retryVars, limVars, valVars, aiVars, dedupVars, pubVars, mainVars, mergeVars, analyzeVars, similarVars>>

(***************************************************************************)
(* The validator and createComment applied to one finding                  *)
(***************************************************************************)
MaxLine == 3
MaxNewStart == 2
MaxNewLines == 2

\* The values a model reply may carry as lineNumber.
LineStrings ==
  {<<"a", "b", "c">>, <<"1", "2">>, <<"2", ".", "5">>, <<>>, <<" ", "2", " ">>, <<"1", ".", "2", ".", "3">>,
   <<"1", "2", "a">>, <<"-", "1">>, <<"0">>, <<"9", "9", "9">>, <<"2", ".", "0">>}

LineNumberValues ==
  {JsNumber(IntNum(i)) : i \in (0 - 1)..MaxLine}
  \cup {JsNumber(IntNum(999)), JsNumber(Fin(25, 1))}
  \cup {JsString(s) : s \in LineStrings}
  \cup {JsBoolean(TRUE), JsBoolean(FALSE), JsNull, JsUndefined, JsObject}

ReviewCommentValues ==
  {JsString(<<>>), JsString(<<" ", "\n">>), JsString(<<"o", "k">>),
   JsString(<<LongRun>>), JsString(<<LongRun, "x">>),
   JsNumber(IntNum(7)), JsUndefined}

SeverityValues ==
  ValidSeverities \cup {JsString(<<"c", "r", "i", "t", "i", "c", "a", "l">>), JsNumber(IntNum(1)), JsUndefined}

FileA == <<"a", ".", "t", "s">>
FileB == <<"b", ".", "t", "s">>

FilePathValues == {JsString(FileA), JsString(<<>>), JsUndefined}

SuggestionValues ==
  {NoSuggestion,
   [present |-> TRUE, code |-> <<"x">>, description |-> <<"f", "i", "x">>]}

Findings ==
  [lineNumber : LineNumberValues, reviewComment : ReviewCommentValues,
   severity : SeverityValues, filePath : FilePathValues,
   suggestion : SuggestionValues]

\* Review units: newStart and newLines as the diff parser yields them
Chunks ==
  [newStart : 1..MaxNewStart, newLines : 0..MaxNewLines]
  \cup {[newStart |-> 10, newLines |-> 16]}

\* file.to is absent for a deleted file
Files == {[to |-> FileA], [to |-> <<>>]}

IdleFinding ==
  [lineNumber |-> JsUndefined, reviewComment |-> JsUndefined,
   severity |-> JsUndefined, filePath |-> JsUndefined,
   suggestion |-> NoSuggestion]

NotCalled == [kind |-> "none", val |-> FALSE]

ValIdle ==
  /\ vPc = "idle"
  /\ vFinding = IdleFinding
  /\ vFile = [to |-> <<>>]
  /\ vChunk = [newStart |-> 1, newLines |-> 0]
  /\ vValid = NotCalled
  /\ vComment = NotCalled

ValInit ==
  /\ vPc = "input"
  /\ vFinding \in Findings
  /\ vFile \in Files
  /\ vChunk \in Chunks
  /\ vValid = NotCalled
  /\ vComment = NotCalled

\* validateAIResponse(vFinding)
ValidateFinding ==
  /\ vPc = "input"
  /\ vValid' = validateAIResponse(vFinding)
  /\ vPc' = "validated"
  /\ UNCHANGED <<vFinding, vFile, vChunk, vComment>>
  /\ UNCHANGED OthersValidate

\* createComment(vFile, vChunk, vFinding)
CreateCommentForFinding ==
  /\ vPc = "validated"
  /\ vComment' = createComment(vFile, vChunk, vFinding)
  /\ vPc' = "commented"
  /\ UNCHANGED <<vFinding, vFile, vChunk, vValid>>
  /\ UNCHANGED OthersValidate

NextValidate == ValidateFinding \/ CreateCommentForFinding

(***************************************************************************)
(* getAIResponse (services/ai.ts) and the unit loop of processFile         *)
(***************************************************************************)
MAX_CHUNK_TOTAL_LINES == 2000
MAX_FILE_TOTAL_LINES == 5000

MaxUnits == 2
MaxReplyLen == 2
MaxApiFailures == 3

ChunkNeverTooLarge(chunk) == FALSE

\* isChunkTooLarge (utils/index.ts:28-35)
isChunkTooLarge(chunk) == chunk.newLines + chunk.oldLines > MAX_CHUNK_TOTAL_LINES

\* Review units of one file, as the merge loop hands them to the unit loop:
\* hunks in file order, one of them without new lines, one over the size limit.
UnitPool ==
  <<[newStart |-> 1, newLines |-> 3, oldLines |-> 1],
    [newStart |-> 5, newLines |-> 0, oldLines |-> 2],
    [newStart |-> 10, newLines |-> 16, oldLines |-> 0],
    [newStart |-> 30, newLines |-> 1500, oldLines |-> 600]>>

RECURSIVE PickUnits(_, _)
PickUnits(picked, i) ==
  IF i > Len(UnitPool) THEN <<>>
  ELSE (IF i \in picked THEN <<UnitPool[i]>> ELSE <<>>) \o PickUnits(picked, i + 1)

UnitLists ==
  {PickUnits(picked, 1) :
     picked \in {p \in SUBSET (1..Len(UnitPool)) : p # {} /\ Cardinality(p) <= MaxUnits}}

\* A finding as a model reply carries it
AIFinding(line, body) ==
  [lineNumber |-> line, reviewComment |-> body,
   severity |-> JsString(SeverityError), filePath |-> JsString(FileA),
   suggestion |-> NoSuggestion]

AIFindings ==
  {AIFinding(JsNumber(IntNum(2)), JsString(<<"o", "k">>)),
   AIFinding(JsNumber(IntNum(999)), JsString(<<"o", "k">>)),
   AIFinding(JsString(<<"a", "b", "c">>), JsString(<<"o", "k">>)),
   AIFinding(JsNumber(IntNum(2)), JsNumber(IntNum(7)))}

ReviewLists == UNION {[1..n -> AIFindings] : n \in 0..MaxReplyLen}

\* AIResponseArray | null
NullResponse == [isNull |-> TRUE, list |-> <<>>]
ListResponse(l) == [isNull |-> FALSE, list |-> l]

\* What the provider's endpoint does over the calls of one getAIResponse: the
\* first `failures` calls throw and the later ones answer, or every call throws.
ApiStreams == [failures : 0..MaxApiFailures, down : BOOLEAN]
ApiOk(stream, k) == ~stream.down /\ k > stream.failures

\* The reply of the endpoint, by what the parsing code makes of its content
ReplyKinds ==
  {"noChoices",   \* no choices[0] (OpenAI), no content blocks (Anthropic)
   "empty",       \* empty content
   "json",        \* JSON.parse succeeds, reviews is an array of objects
   "noReviews",   \* JSON.parse succeeds, no reviews key
   "truncated",   \* JSON.parse throws; the first salvage pattern matches and
                  \* the text rebuilt from it does not parse
   "stage1",      \* JSON.parse throws; the text rebuilt from the first salvage
                  \* pattern parses to reviews
   "objects"}     \* JSON.parse throws; the first pattern does not match; the
                  \* second finds the flat objects reviews

Replies == [kind : ReplyKinds, reviews : ReviewLists]

Rethrow(r) == r

\* catch (error) { ...; return null; }
CatchAll(r) == IF r.kind = "throw" THEN Returns(NullResponse) ELSE r

\* validateAIResponse on every element of reviews
Validations(reviews) == [i \in 1..Len(reviews) |-> validateAIResponse(reviews[i])]

\* the elements of reviews at the positions where keep holds
KeepWhere(reviews, keep) ==
  LET RECURSIVE Kept(_)
      Kept(i) == IF i > Len(reviews) THEN <<>>
                 ELSE (IF keep[i] THEN <<reviews[i]>> ELSE <<>>) \o Kept(i + 1)
  IN Kept(1)

\* reviews.filter(validateAIResponse), vs being Validations(reviews): throws
\* as soon as the validator does
FilterValid(reviews, vs) ==
  IF \E i \in 1..Len(reviews) : vs[i].kind = "throw"
  THEN Throws
  ELSE Returns(KeepWhere(reviews, [i \in 1..Len(reviews) |-> vs[i].val]))

\* the loop of ai.ts:718-729, vs being Validations(objs): a throw of the
\* validator is swallowed per object
ValidObjects(objs, vs) ==
  KeepWhere(objs, [i \in 1..Len(objs) |-> vs[i].kind = "return" /\ vs[i].val])

\* return reviews.filter(validateAIResponse), inside a try whose catch (the
\* salvage for a well-formed content, the parse catch elsewhere) ends in
\* return null
FilteredOrNull(filtered) ==
  IF filtered.kind = "throw" THEN Returns(NullResponse)
  ELSE Returns(ListResponse(filtered.val))

\* if (validObjects.length > 0) return validObjects; ... return null
ObjectsOrNull(valid) ==
  IF valid # <<>> THEN Returns(ListResponse(valid)) ELSE Returns(NullResponse)

\* ai.ts:632-745: from the endpoint's reply to the function's result, before
\* the outer catch; filtered is FilterValid and valid is ValidObjects of the
\* reviews the parse at hand yields.  A well-formed content whose validation
\* throws is handed to the salvage: its reviews array ends with an object,
\* the first pattern matches, and the text rebuilt from the match lacks the
\* closing brace, so the salvage ends in return null.
ParseOpenAI(reply, filtered, valid) ==
  CASE reply.kind = "noChoices" -> Throws
    [] reply.kind = "empty" -> Returns(NullResponse)
    [] reply.kind = "noReviews" -> Returns(ListResponse(<<>>))
    [] reply.kind = "json" -> FilteredOrNull(filtered)
    [] reply.kind = "truncated" -> Returns(NullResponse)
    [] reply.kind = "stage1" /\ reply.reviews # <<>> -> FilteredOrNull(filtered)
    [] reply.kind = "objects" -> ObjectsOrNull(valid)
    [] OTHER -> Returns(NullResponse)

\* ai.ts:806-880: no salvage, a parse failure returns null
ParseAnthropic(reply, filtered) ==
  CASE reply.kind \in {"noChoices", "empty"} -> Returns(NullResponse)
    [] reply.kind = "noReviews" -> Returns(ListResponse(<<>>))
    [] reply.kind = "json" -> FilteredOrNull(filtered)
    [] OTHER -> Returns(NullResponse)

\* what the provider function makes of the reply
ParseReply(provider, reply, vs) ==
  IF provider = "anthropic"
  THEN ParseAnthropic(reply, FilterValid(reply.reviews, vs))
  ELSE ParseOpenAI(reply, FilterValid(reply.reviews, vs), ValidObjects(reply.reviews, vs))

\* withRetry(() => create(...), MAX_RETRIES, RETRY_DELAY, apiName), after c0
\* calls of the endpoint: the first attempt that answers ends it
InnerRetry(stream, c0) ==
  IF \E k \in 1..MAX_RETRIES : ApiOk(stream, c0 + k)
  THEN [kind |-> "return",
        calls |-> c0 + (CHOOSE k \in 1..MAX_RETRIES :
                          /\ ApiOk(stream, c0 + k)
                          /\ \A j \in 1..(k - 1) : ~ApiOk(stream, c0 + j))]
  ELSE [kind |-> "throw", calls |-> c0 + MAX_RETRIES]

WithCalls(r, c) == [kind |-> r.kind, val |-> r.val, calls |-> c]

\* getOpenAIResponse / getAnthropicResponse, parsed being ParseReply of the
\* reply that an answering endpoint gives
ProviderResponse(api, parsed) ==
  WithCalls(CatchAll(IF api.kind = "throw" THEN Throws ELSE parsed), api.calls)

RECURSIVE OuterRetry(_, _, _, _)
\* withRetry(() => getOpenAIResponse(prompt, chunk)) of getAIResponse, from
\* its attempt k on
OuterAttempt(r, stream, parsed, k) ==
  IF r.kind = "return" THEN r
  ELSE IF k < MAX_RETRIES THEN OuterRetry(stream, parsed, k + 1, r.calls)
  ELSE r

OuterRetry(stream, parsed, k, c0) ==
  OuterAttempt(ProviderResponse(InnerRetry(stream, c0), parsed), stream, parsed, k)

NoEntry == [present |-> FALSE, list |-> <<>>]

\* What a lookup in an enabled cache may meet: restoreCache throws (the cache
\* service is unavailable), restoreCache restores nothing, the restored file
\* does not parse, the entry is older than its ttl, or the entry is fresh
LookupOutcomes(entry) ==
  {"restoreThrows", "restoreMiss"}
    \cup (IF entry.present THEN {"unreadable", "expired", "fresh"} ELSE {})

\* restoreCache or JSON.parse(fs.readFileSync(...)) throws
LookupThrows(lookup) == lookup \in {"restoreThrows", "unreadable"}

CacheRethrow(r) == r

\* catch (error) { core.warning(...); return null; } (unnamed/part_009:132-135)
CacheCatch(r) == IF r.kind = "throw" THEN Returns(NullResponse) ELSE r

CacheAlwaysMiss(enabled, lookup, entry) == Returns(NullResponse)

\* getCachedReviewResults (unnamed/part_009:97-136)
getCachedReviewResults(enabled, lookup, entry) ==
  IF ~enabled THEN Returns(NullResponse)
  ELSE CacheCatch(IF LookupThrows(lookup) THEN Throws
                  ELSE IF lookup = "fresh" THEN Returns(ListResponse(entry.list))
                  ELSE Returns(NullResponse))

\* the try block of getAIResponse after a cache miss, and its catch
AfterCacheMiss(r) == WithCalls(CatchAll([kind |-> r.kind, val |-> r.val]), r.calls)

\* getAIResponse, cached being what getCachedReviewResults returned
getAIResponse(cached, provider, stream, reply) ==
  IF ~cached.isNull THEN WithCalls(Returns(cached), 0)
  ELSE AfterCacheMiss(
         OuterRetry(stream, ParseReply(provider, reply, Validations(reply.reviews)), 1, 0))

\* tryAutomaticFix (utils/index.ts:222-274): a finding without a suggestion
\* gets one when a fix pattern matches the line it points to
tryAutomaticFix(aiResponse, patternMatches) ==
  IF aiResponse.suggestion.present /\ aiResponse.suggestion.code # <<>> THEN aiResponse
  ELSE IF patternMatches
  THEN [aiResponse EXCEPT !.suggestion =
          [present |-> TRUE, code |-> <<"x">>, description |-> <<"A", "u", "t", "o", "-", "f", "i", "x", ":", " ", "f", "i", "x">>]]
  ELSE aiResponse

\* comments.push(comment) for every comment that is not null
PushAll(made) ==
  IF \E i \in 1..Len(made) : made[i].kind = "throw"
  THEN Throws
  ELSE Returns(KeepWhere([i \in 1..Len(made) |-> made[i].val],
                         [i \in 1..Len(made) |-> ~made[i].val.isNull]))

\* the loop of main.ts:335-364 over the findings of one unit
CommentsOf(file, chunk, responses, patternMatches) ==
  PushAll([i \in 1..Len(responses) |->
             createComment(file, chunk, tryAutomaticFix(responses[i], patternMatches))])

UnitKeys == {UnitPool[i].newStart : i \in 1..Len(UnitPool)}

\* What an earlier run may have left in the cache: nothing, or a list that
\* getAIResponse returned then
CacheEntries ==
  {NoEntry,
   [present |-> TRUE, list |-> <<AIFinding(JsNumber(IntNum(2)), JsString(<<"o", "k">>))>>]}

Providers == {"openai", "anthropic"}

AIIdle ==
  /\ aPc = "idle"
  /\ aProvider = "openai"
  /\ aCacheEnabled = FALSE
  /\ aUnits = <<>>
  /\ aIdx = 0
  /\ aResponse = NotCalled
  /\ aCalls = 0
  /\ aLookup = "none"
  /\ aCache = [k \in UnitKeys |-> NoEntry]
  /\ aComments = <<>>

AIInit ==
  /\ aPc = "unit"
  /\ aProvider \in Providers
  /\ aCacheEnabled \in BOOLEAN
  /\ aUnits \in UnitLists
  /\ aIdx = 1
  /\ aResponse = NotCalled
  /\ aCalls = 0
  /\ aLookup = "none"
  /\ aCache \in [UnitKeys -> CacheEntries]
  /\ \A k \in UnitKeys :
       aCache[k].present => aCacheEnabled /\ \E i \in 1..Len(aUnits) : aUnits[i].newStart = k
  /\ aComments = <<>>

SkippedUnit(chunk) == isChunkTooLarge(chunk) \/ chunk.newLines = 0

\* main.ts:287-297: continue on a unit over the size limit or without new lines
AISkipUnit ==
  /\ aPc = "unit"
  /\ aIdx <= Len(aUnits)
  /\ SkippedUnit(aUnits[aIdx])
  /\ aIdx' = aIdx + 1
  /\ UNCHANGED <<aPc, aProvider, aCacheEnabled, aUnits, aResponse, aCalls, aLookup, aCache, aComments>>
  /\ UNCHANGED OthersAI

\* getAIResponse with the cache read it starts with
ResponseFor(cached, provider, stream, reply) ==
  [r |-> getAIResponse(cached, provider, stream, reply), fromCache |-> ~cached.isNull]

\* getAIResponse from its cache lookup on: what the lookup throws is caught by
\* the catch of getAIResponse (ai.ts:542-554), which returns null
ResponseAfterLookup(looked, provider, stream, reply) ==
  IF looked.kind = "throw"
  THEN [r |-> WithCalls(CatchAll(Throws), 0), fromCache |-> FALSE]
  ELSE ResponseFor(looked.val, provider, stream, reply)

Looked(o, enabled, lookup) ==
  [r |-> o.r, fromCache |-> o.fromCache, lookup |-> IF enabled THEN lookup ELSE "disabled"]

\* What getAIResponse may do for a unit, over the outcomes of the cache read,
\* of the endpoint and of its reply
ResponsesFor(enabled, entry, provider) ==
  {Looked(ResponseAfterLookup(getCachedReviewResults(enabled, lookup, entry),
                              provider, stream, reply),
          enabled, lookup) :
     lookup \in LookupOutcomes(entry), stream \in ApiStreams, reply \in Replies}

\* main.ts:308: await getAIResponse(prompt, chunk, prDetails, file)
AIGetResponse ==
  /\ aPc = "unit"
  /\ aIdx <= Len(aUnits)
  /\ ~SkippedUnit(aUnits[aIdx])
  /\ \E o \in ResponsesFor(aCacheEnabled, aCache[aUnits[aIdx].newStart], aProvider),
        writable \in BOOLEAN :
       /\ aResponse' = [kind |-> o.r.kind, val |-> o.r.val]
       /\ aCalls' = o.r.calls
       /\ aLookup' = o.lookup
       /\ aCache' = IF ~o.fromCache /\ o.r.kind = "return" /\ ~o.r.val.isNull
                       /\ aCacheEnabled /\ writable
                    THEN [aCache EXCEPT ![aUnits[aIdx].newStart] =
                            [present |-> TRUE, list |-> o.r.val.list]]
                    ELSE aCache
  /\ aPc' = "gotResponse"
  /\ UNCHANGED <<aProvider, aCacheEnabled, aUnits, aIdx, aComments>>
  /\ UNCHANGED OthersAI

\* main.ts:310-364: what the rest of the loop body does with the response
ResponseComments(response, file, chunk, patternMatches) ==
  IF response.kind = "throw" THEN Throws
  ELSE IF response.val.isNull \/ response.val.list = <<>> THEN Returns(<<>>)
  ELSE CommentsOf(file, chunk, response.val.list, patternMatches)

AfterComments(cs) ==
  IF cs.kind = "throw"
  THEN /\ aPc' = "threw"
       /\ UNCHANGED <<aIdx, aComments>>
  ELSE /\ aPc' = "unit"
       /\ aIdx' = aIdx + 1
       /\ aComments' = aComments \o cs.val

\* main.ts:310-364: the rest of the loop body
AIProcessResponses ==
  /\ aPc = "gotResponse"
  /\ \E patternMatches \in BOOLEAN :
       AfterComments(ResponseComments(aResponse, [to |-> FileA], aUnits[aIdx], patternMatches))
  /\ aResponse' = NotCalled
  /\ aCalls' = 0
  /\ aLookup' = "none"
  /\ UNCHANGED <<aProvider, aCacheEnabled, aUnits, aCache>>
  /\ UNCHANGED OthersAI

\* main.ts:367: return comments
AIFileDone ==
  /\ aPc = "unit"
  /\ aIdx > Len(aUnits)
  /\ aPc' = "done"
  /\ UNCHANGED <<aProvider, aCacheEnabled, aUnits, aIdx, aResponse, aCalls, aLookup, aCache, aComments>>
  /\ UNCHANGED OthersAI

NextAI == AISkipUnit \/ AIGetResponse \/ AIProcessResponses \/ AIFileDone

(***************************************************************************)
(* The duplicate filter of main (main.ts:612-725) and isCommentSimilar     *)
(***************************************************************************)
MaxCandidates == 2

\* newComment.replace(/[*_~`#>]/g, "")
MarkdownChars == {"*", "_", "~", "u0060", "#", ">"}
NotMarkdown(c) == c \notin MarkdownChars
CleanComment(s) == ToLowerCase(SelectSeq(s, NotMarkdown))

RECURSIVE SplitFrom(_, _, _)
\* s.split(/\s+/) without the empty strings, which no caller keeps
SplitFrom(s, i, word) ==
  IF i > Len(s) THEN (IF word = <<>> THEN <<>> ELSE <<word>>)
  ELSE IF s[i] \in WhiteSpace
  THEN (IF word = <<>> THEN <<>> ELSE <<word>>) \o SplitFrom(s, i + 1, <<>>)
  ELSE SplitFrom(s, i + 1, Append(word, s[i]))

LongWord(w) == Len(w) > 3
\* split(/\s+/).filter((w) => w.length > 3)
SignificantWords(s) == SelectSeq(SplitFrom(s, 1, <<>>), LongWord)

SeqRange(s) == {s[i] : i \in 1..Len(s)}

shortCommentThreshold == 40

\* cleanNew.length < shortCommentThreshold || cleanExisting.length < shortCommentThreshold
EitherShort(cleanNew, cleanExisting) ==
  StrLen(cleanNew) < shortCommentThreshold \/ StrLen(cleanExisting) < shortCommentThreshold

\* similarityThreshold (main.ts:48-49), in tenths: 0.8 or 0.6
similarityThreshold(cleanNew, cleanExisting) ==
  IF EitherShort(cleanNew, cleanExisting) THEN 8 ELSE 6

\* main.ts:47-81 on the cleaned texts and their significant words
SimilarCleaned(cleanNew, cleanExisting, newWords, existingWords) ==
  \/ Cardinality({i \in 1..Len(newWords) : Includes(cleanExisting, newWords[i])}) >= 3
  \/ Includes(cleanNew, cleanExisting)
  \/ Includes(cleanExisting, cleanNew)
  \/ /\ EitherShort(cleanNew, cleanExisting)
     /\ Min(Cardinality(SeqRange(newWords)), Cardinality(SeqRange(existingWords))) > 0
     /\ 10 * Cardinality(SeqRange(newWords) \cap SeqRange(existingWords))
          > similarityThreshold(cleanNew, cleanExisting)
              * Min(Cardinality(SeqRange(newWords)), Cardinality(SeqRange(existingWords)))

SimilarClean(cleanNew, cleanExisting) ==
  SimilarCleaned(cleanNew, cleanExisting,
                 SignificantWords(cleanNew), SignificantWords(cleanExisting))

isCommentSimilar(newComment, existingComment) ==
  SimilarClean(CleanComment(newComment), CleanComment(existingComment))

\* Comment texts for isCommentSimilar: short ones, and ones of 40 characters
\* and more that share two of their three significant words
SimTextNullCheck ==
  <<"n", "u", "l", "l", " ", "c", "h", "e", "c", "k", " ", "m", "i", "s", "s", "i", "n", "g">>
SimTextCheckNull ==
  <<"m", "i", "s", "s", "i", "n", "g", " ", "n", "u", "l", "l", " ", "c", "h", "e", "c", "k">>
SimTextNullPointer ==
  <<"*", "*", "N", "u", "l", "l", "*", "*", " ", "p", "o", "i", "n", "t", "e", "r">>
SimTextPointerNull ==
  <<"p", "o", "i", "n", "t", "e", "r", " ", "n", "u", "l", "l">>
SimTextNull ==
  <<"n", "u", "l", "l">>
SimTextFix ==
  <<"f", "i", "x">>
SimTextFixIt ==
  <<"f", "i", "x", " ", "i", "t">>
SimTextLoopBound ==
  <<"l", "o", "o", "p", " ", "b", "o", "u", "n", "d", " ", "w", "r", "o", "n", "g">>
SimTextDereferenced ==
  <<"t", "h", "e", " ", "u", "n", "v", "a", "l", "i", "d", "a", "t", "e", "d", " ", "c", "o", "n", "f", "i", "g", "u", "r", "a", "t", "i", "o", "n", " ", "i", "s", " ", "d", "e", "r", "e", "f", "e", "r", "e", "n", "c", "e", "d", " ", "n", "o", "w">>
SimTextOverwritten ==
  <<"t", "h", "e", " ", "u", "n", "v", "a", "l", "i", "d", "a", "t", "e", "d", " ", "c", "o", "n", "f", "i", "g", "u", "r", "a", "t", "i", "o", "n", " ", "i", "s", " ", "o", "v", "e", "r", "w", "r", "i", "t", "t", "e", "n", " ", "n", "o", "w">>
SimTextValidation ==
  <<"p", "o", "s", "s", "i", "b", "l", "e", " ", "n", "u", "l", "l", " ", "d", "e", "r", "e", "f", "e", "r", "e", "n", "c", "e", " ", "o", "f", " ", "u", "s", "e", "r", " ", "b", "e", "f", "o", "r", "e", " ", "v", "a", "l", "i", "d", "a", "t", "i", "o", "n", " ", "h", "e", "r", "e">>
SimTextValidationNote ==
  <<">", " ", "p", "o", "s", "s", "i", "b", "l", "e", " ", "n", "u", "l", "l", " ", "d", "e", "r", "e", "f", "e", "r", "e", "n", "c", "e", " ", "o", "f", " ", "u", "s", "e", "r", " ", "b", "e", "f", "o", "r", "e", " ", "v", "a", "l", "i", "d", "a", "t", "i", "o", "n">>

CommentTexts ==
  {SimTextNullCheck, SimTextCheckNull, SimTextNullPointer, SimTextPointerNull,
   SimTextNull, SimTextFix, SimTextFixIt, SimTextLoopBound,
   SimTextDereferenced, SimTextOverwritten, SimTextValidation, SimTextValidationNote}

SimilarIdle ==
  /\ yPc = "idle"
  /\ yNew = <<>>
  /\ yExisting = <<>>
  /\ ySimilar = FALSE

SimilarInit ==
  /\ yPc = "start"
  /\ yNew \in CommentTexts
  /\ yExisting \in CommentTexts
  /\ ySimilar = FALSE

\* one call of isCommentSimilar (main.ts:41-82)
SimilarCompare ==
  /\ yPc = "start"
  /\ ySimilar' = isCommentSimilar(yNew, yExisting)
  /\ yPc' = "done"
  /\ UNCHANGED <<yNew, yExisting>>
  /\ UNCHANGED OthersSimilar

NextSimilar == SimilarCompare

\* Bodies as createComment writes them
BodyNullCheck == EmojiError \o <<" ", "*", "*", "E", "R", "R", "O", "R", "*", "*", "\n", "\n", "n", "u", "l", "l", " ", "c", "h", "e", "c", "k", " ", "m", "i", "s", "s", "i", "n", "g">>
BodyLoopBound == EmojiWarning \o <<" ", "*", "*", "W", "A", "R", "N", "I", "N", "G", "*", "*", "\n", "\n", "l", "o", "o", "p", " ", "b", "o", "u", "n", "d", " ", "w", "r", "o", "n", "g">>

DedupLines == {1, 11}

CommentPool ==
  [path : {FileA, FileB}, line : DedupLines, body : {BodyNullCheck, BodyLoopBound},
   side : {"RIGHT"}]

CandidateLists == UNION {[1..n -> CommentPool] : n \in 1..MaxCandidates}

\* The comments already on the pull request, and the stored history
ExistingLists == {<<>>} \cup {<<c>> : c \in CommentPool}

\* getExistingComments: path -> lines that carry a comment, here as pairs
ExistingLines(live) == {<<live[i].path, live[i].line>> : i \in 1..Len(live)}

\* main.ts:639-645
ExactDuplicate(comment, existingComments) ==
  <<comment.path, comment.line>> \in existingComments

\* main.ts:649-660
SimilarNearby(comment, allCommentItems) ==
  \E i \in 1..Len(allCommentItems) :
    /\ allCommentItems[i].path = comment.path
    /\ Abs(allCommentItems[i].line - comment.line) < 10
    /\ isCommentSimilar(comment.body, allCommentItems[i].body)

\* the callback of comments.filter (main.ts:637-663)
KeepComment(comment, existingComments, allCommentItems) ==
  /\ ~ExactDuplicate(comment, existingComments)
  /\ ~SimilarNearby(comment, allCommentItems)

\* main.ts:613-664
FilterComments(comments, live, historicalComments) ==
  KeepWhere(comments,
            [i \in 1..Len(comments) |->
               KeepComment(comments[i], ExistingLines(live), live \o historicalComments)])

RECURSIVE CombineComments(_, _)
\* storeCommentHistory: the existing entries, then every new comment that no
\* entry equals in path, line and body
CombineComments(combined, comments) ==
  IF comments = <<>> THEN combined
  ELSE CombineComments(
         IF \E i \in 1..Len(combined) :
              /\ combined[i].path = Head(comments).path
              /\ combined[i].line = Head(comments).line
              /\ combined[i].body = Head(comments).body
         THEN combined ELSE Append(combined, Head(comments)),
         Tail(comments))

HistoryNotAppended(existingComments, comments) == existingComments

\* storeCommentHistory (unnamed/part_009:156-186): what is written
HistoryAfterStore(existingComments, comments) ==
  CombineComments(existingComments, comments)

\* main.ts:693-698
SummaryComment ==
  [path |-> FileA, line |-> 1, side |-> "RIGHT",
   body |-> <<"#", " ", "A", "I", " ", "C", "o", "d", "e", " ", "R", "e", "v", "i", "e", "w", " ", "S", "u", "m", "m", "a", "r", "y", "\n", "\n", "s", "u", "m", "m", "a", "r", "y", "\n", "\n", "-", "-", "-", "\n", "*", "T", "h", "i", "s", " ", "s", "u", "m", "m", "a", "r", "y", " ", "w", "a", "s", " ", "a", "u", "t", "o", "m", "a", "t", "i", "c", "a", "l", "l", "y", " ", "g", "e", "n", "e", "r", "a", "t", "e", "d", " ", "b", "y", " ", "A", "I", " ", "b", "a", "s", "e", "d", " ", "o", "n", " ", "t", "h", "e", " ", "r", "e", "v", "i", "e", "w", " ", "c", "o", "m", "m", "e", "n", "t", "s", ".", "*">>]

DedupIdle ==
  /\ dPc = "idle"
  /\ dCandidates = <<>>
  /\ dLive = <<>>
  /\ dHistory = <<>>
  /\ dHistorical = <<>>
  /\ dFiltered = <<>>
  /\ dSubmitted = <<>>
  /\ dStored = FALSE
  /\ dPubFailed = FALSE
  /\ dRun = 1
  /\ dFirstFiltered = <<>>

DedupInit ==
  /\ dPc = "start"
  /\ dCandidates \in CandidateLists
  /\ dLive \in ExistingLists
  /\ dHistory \in ExistingLists
  /\ dHistorical = <<>>
  /\ dFiltered = <<>>
  /\ dSubmitted = <<>>
  /\ dStored = FALSE
  /\ dPubFailed = FALSE
  /\ dRun = 1
  /\ dFirstFiltered = <<>>

\* main.ts:613-664: the live comments, the history (empty when it cannot be
\* read or has expired), and the filter
DedupFilter ==
  /\ dPc = "start"
  /\ \E readable \in BOOLEAN :
       dHistorical' = IF readable THEN dHistory ELSE <<>>
  /\ dFiltered' = FilterComments(dCandidates, dLive, dHistorical')
  /\ dPc' = "filtered"
  /\ UNCHANGED <<dCandidates, dLive, dHistory, dSubmitted, dStored, dPubFailed, dRun, dFirstFiltered>>
  /\ UNCHANGED OthersDedup

\* main.ts:673: storeCommentHistory, which may fail and then stores nothing;
\* its own read of the history gives the entries or, on a miss, none
\* (unnamed/part_009:156-186)
DedupStoreHistory ==
  /\ dPc = "filtered"
  /\ \E stored \in BOOLEAN, hit \in BOOLEAN :
       /\ dHistory' = IF stored
                      THEN HistoryAfterStore(IF hit THEN dHistory ELSE <<>>, dFiltered)
                      ELSE dHistory
       /\ dStored' = stored
  /\ dPc' = "stored"
  /\ UNCHANGED <<dCandidates, dLive, dHistorical, dFiltered, dSubmitted, dPubFailed, dRun,
                 dFirstFiltered>>
  /\ UNCHANGED OthersDedup

\* main.ts:682-687: every candidate was a duplicate
DedupNothingToAdd ==
  /\ dPc = "stored"
  /\ dFiltered = <<>>
  /\ dPc' = "done"
  /\ UNCHANGED <<dCandidates, dLive, dHistory, dHistorical, dFiltered, dSubmitted, dStored,
                 dPubFailed, dRun, dFirstFiltered>>
  /\ UNCHANGED OthersDedup

\* main.ts:689-725: the summary comment, when one was generated, goes first;
\* the list is handed to createReviewComment, whose failure is only logged
DedupSubmit ==
  /\ dPc = "stored"
  /\ dFiltered # <<>>
  /\ \E summary \in BOOLEAN :
       dSubmitted' = (IF summary THEN <<SummaryComment>> ELSE <<>>) \o dFiltered
  /\ dPubFailed' \in BOOLEAN
  /\ dPc' = "done"
  /\ UNCHANGED <<dCandidates, dLive, dHistory, dHistorical, dFiltered, dStored, dRun,
                 dFirstFiltered>>
  /\ UNCHANGED OthersDedup

\* A later run on the same change request with the same findings, after a
\* run that wrote its survivors to the history and whose publication threw:
\* nothing of that run is live on the pull request
DedupLaterRun ==
  /\ dPc = "done"
  /\ dRun = 1
  /\ dStored
  /\ dPubFailed
  /\ dSubmitted # <<>>
  /\ dRun' = 2
  /\ dFirstFiltered' = dFiltered
  /\ dPc' = "start"
  /\ dHistorical' = <<>>
  /\ dFiltered' = <<>>
  /\ dSubmitted' = <<>>
  /\ dStored' = FALSE
  /\ dPubFailed' = FALSE
  /\ UNCHANGED <<dCandidates, dLive, dHistory>>
  /\ UNCHANGED OthersDedup

NextDedup ==
  DedupFilter \/ DedupStoreHistory \/ DedupNothingToAdd \/ DedupSubmit \/ DedupLaterRun

(***************************************************************************)
(* createReviewComment (services/github.ts:273-584)                        *)
(***************************************************************************)
BATCH_SIZE == 10

MaxPubComments == 2

\* Hunks of the freshly fetched diff: additions, pure deletions (no new
\* lines), and the hunk of a file whose content was removed altogether
HunkLists ==
  {<<>>,
   <<[newStart |-> 0, newLines |-> 0]>>,
   <<[newStart |-> 1, newLines |-> 3]>>,
   <<[newStart |-> 4, newLines |-> 0]>>,
   <<[newStart |-> 1, newLines |-> 3], [newStart |-> 10, newLines |-> 2]>>,
   <<[newStart |-> 4, newLines |-> 0], [newStart |-> 10, newLines |-> 2]>>,
   <<[newStart |-> 1, newLines |-> 3], [newStart |-> 7, newLines |-> 0]>>}

PubFiles == {FileA, FileB}
AbsentFile == [present |-> FALSE, chunks |-> <<>>]

\* parseDiff(prDiff.data): file.to -> its chunks
Diffs ==
  {[f \in PubFiles |-> IF f = FileA THEN [present |-> TRUE, chunks |-> h] ELSE b] :
     h \in HunkLists,
     b \in {AbsentFile, [present |-> TRUE, chunks |-> <<[newStart |-> 1, newLines |-> 3]>>]}}

\* The number of lines of a.ts and b.ts at the head commit
FileLengths == {6, 40}

PubComment(p, l, b) == [path |-> p, line |-> l, body |-> b, side |-> "RIGHT"]

PubCommentPool ==
  {PubComment(FileA, l, BodyNullCheck) : l \in {0, 2, 5, 8, 30}}
  \cup {PubComment(FileA, 2, <<" ">>), PubComment(FileB, 2, BodyNullCheck)}

\* Lists of more than BATCH_SIZE comments: two batches
ManyComments(n, comment) == [i \in 1..n |-> comment]
LongPubCommentLists ==
  {ManyComments(BATCH_SIZE + 1, PubComment(FileA, 2, BodyNullCheck)),
   ManyComments(BATCH_SIZE, PubComment(FileB, 2, BodyNullCheck))
     \o <<PubComment(FileA, 2, BodyNullCheck)>>,
   <<PubComment(FileA, 2, BodyNullCheck)>>
     \o ManyComments(BATCH_SIZE, PubComment(FileB, 2, BodyNullCheck))}

PubCommentLists ==
  UNION {[1..n -> PubCommentPool] : n \in 1..MaxPubComments} \cup LongPubCommentLists

\* What getContent does over the comments of one call: it answers for every
\* comment, for all but one, or for none
FetchOutcomes(n) ==
  {[i \in 1..n |-> i \notin failed] : failed \in {{}, 1..n} \cup {{i} : i \in 1..n}}

\* diffFile.chunks.some(chunk => line >= chunk.newStart && line <= chunkEndLine)
IsLineInAnyChunk(line, chunks) ==
  \E i \in 1..Len(chunks) : line >= chunks[i].newStart /\ line <= ChunkEnd(chunks[i])

\* Math.min(Math.abs(line - chunk.newStart), Math.abs(line - chunkEnd))
ChunkDistance(line, chunk) ==
  Min(Abs(line - chunk.newStart), Abs(line - ChunkEnd(chunk)))

FirstChunk(line, chunks) == chunks[1]

\* .sort((a, b) => a.distance - b.distance)[0], the sort being stable
NearestChunk(line, chunks) ==
  chunks[CHOOSE i \in 1..Len(chunks) :
           \A j \in 1..Len(chunks) :
             \/ ChunkDistance(line, chunks[i]) < ChunkDistance(line, chunks[j])
             \/ /\ ChunkDistance(line, chunks[i]) = ChunkDistance(line, chunks[j])
                /\ i <= j]

Dropped(comment) == [keep |-> FALSE, comment |-> comment]
Kept(comment) == [keep |-> TRUE, comment |-> comment]

\* github.ts:386-396
AdjustedComment(comment, nearest) ==
  [comment EXCEPT !.line = nearest.newStart,
                  !.body = AdjustmentNote(IntNum(comment.line)) \o comment.body]

\* github.ts:339-406, for a line outside every chunk: fetched tells whether
\* getContent answered with a content, fileLines is that content's lines
Repointed(comment, chunks, fetched, fileLines) ==
  IF fetched /\ comment.line <= fileLines /\ chunks # <<>>
  THEN Kept(AdjustedComment(comment, NearestChunk(comment.line, chunks)))
  ELSE Dropped(comment)

\* the callback of comments.map (github.ts:316-421)
RevalidateComment(comment, file, fetched, fileLines) ==
  IF ~file.present THEN Dropped(comment)
  ELSE IF ~IsLineInAnyChunk(comment.line, file.chunks)
  THEN Repointed(comment, file.chunks, fetched, fileLines)
  ELSE IF comment.line <= 0 THEN Dropped(comment)
  ELSE IF comment.body = <<>> \/ Trim(comment.body) = <<>> THEN Dropped(comment)
  ELSE Kept(comment)

Revalidated(comments, diff, fetched, fileLines) ==
  [i \in 1..Len(comments) |->
     RevalidateComment(comments[i], diff[comments[i].path], fetched[i],
                       fileLines[comments[i].path])]

\* validatedComments.filter(comment => comment !== null)
NonNull(validated) ==
  KeepWhere([i \in 1..Len(validated) |-> validated[i].comment],
            [i \in 1..Len(validated) |-> validated[i].keep])

BatchOverlapping(comments, k) ==
  SubSeq(comments, (k - 1) * BATCH_SIZE + 1, Min(k * BATCH_SIZE + 1, Len(comments)))

\* filteredComments.slice(i, i + BATCH_SIZE), for the k-th batch
Batch(comments, k) ==
  SubSeq(comments, (k - 1) * BATCH_SIZE + 1, Min(k * BATCH_SIZE, Len(comments)))

BatchCount(comments) == (Len(comments) + BATCH_SIZE - 1) \div BATCH_SIZE

\* !comment.path || !comment.body || !comment.line
BatchInvalid(comment) == comment.path = <<>> \/ comment.body = <<>> \/ comment.line = 0

ValidBatch(batch) ==
  KeepWhere(batch, [i \in 1..Len(batch) |-> ~BatchInvalid(batch[i])])

\* batch.filter(comment => !validBatch.some(valid => same path, line and body))
\* (github.ts:498-504)
InvalidOfBatch(batch) ==
  KeepWhere(batch, [i \in 1..Len(batch) |-> BatchInvalid(batch[i])])

FailedNotRecorded(failedComments, batch) == failedComments

\* failedComments.push(...batch) (github.ts:508)
FailedAfter(failedComments, batch) == failedComments \o batch

PubIdle ==
  /\ pPc = "idle"
  /\ pComments = <<>>
  /\ pDiff = [f \in PubFiles |-> AbsentFile]
  /\ pFileLines = [f \in PubFiles |-> 0]
  /\ pFiltered = <<>>
  /\ pBatch = 0
  /\ pSent = <<>>
  /\ pSuccessCount = 0
  /\ pFailureCount = 0
  /\ pFailed = <<>>
  /\ pOutcomes = <<>>
  /\ pValidated = <<>>
  /\ pFetched = <<>>

PubInit ==
  /\ pPc = "start"
  /\ pComments \in PubCommentLists
  /\ pDiff \in Diffs
  /\ pFileLines \in {[f \in PubFiles |-> n] : n \in FileLengths}
  /\ pFiltered = <<>>
  /\ pBatch = 0
  /\ pSent = <<>>
  /\ pSuccessCount = 0
  /\ pFailureCount = 0
  /\ pFailed = <<>>
  /\ pOutcomes = <<>>
  /\ pValidated = <<>>
  /\ pFetched = <<>>

\* github.ts:279-310: pulls.get or the diff request fails for good; the error
\* is rethrown by the outer catch
PubFetchFails ==
  /\ pPc = "start"
  /\ pPc' = "threw"
  /\ UNCHANGED <<pComments, pDiff, pFileLines, pValidated, pFetched, pFiltered, pBatch, pSent, pSuccessCount, pFailureCount,
                 pFailed, pOutcomes>>
  /\ UNCHANGED OthersPublish

\* github.ts:312-442: the diff is parsed and every comment is validated
\* against it; with nothing left the function returns
PubValidate ==
  /\ pPc = "start"
  /\ pFetched' \in FetchOutcomes(Len(pComments))
  /\ pValidated' = Revalidated(pComments, pDiff, pFetched', pFileLines)
  /\ pFiltered' = NonNull(pValidated')
  /\ pPc' = IF pFiltered' = <<>> THEN "done" ELSE "batching"
  /\ pBatch' = 1
  /\ UNCHANGED <<pComments, pDiff, pFileLines, pSent, pSuccessCount, pFailureCount, pFailed, pOutcomes>>
  /\ UNCHANGED OthersPublish

\* github.ts:455-470: a batch that the additional validation empties
PubSkipBatch ==
  /\ pPc = "batching"
  /\ pBatch <= BatchCount(pFiltered)
  /\ ValidBatch(Batch(pFiltered, pBatch)) = <<>>
  /\ pBatch' = pBatch + 1
  /\ pOutcomes' = Append(pOutcomes, "skipped")
  /\ UNCHANGED <<pPc, pComments, pDiff, pFileLines, pValidated, pFetched, pFiltered, pSent, pSuccessCount, pFailureCount,
                 pFailed>>
  /\ UNCHANGED OthersPublish

\* github.ts:472-505: createReview with the valid comments of the batch
\* succeeds
PubBatchOk ==
  /\ pPc = "batching"
  /\ pBatch <= BatchCount(pFiltered)
  /\ ValidBatch(Batch(pFiltered, pBatch)) # <<>>
  /\ pSent' = pSent \o ValidBatch(Batch(pFiltered, pBatch))
  /\ pSuccessCount' = pSuccessCount + Len(ValidBatch(Batch(pFiltered, pBatch)))
  /\ pFailureCount' = pFailureCount + Len(Batch(pFiltered, pBatch))
                        - Len(ValidBatch(Batch(pFiltered, pBatch)))
  /\ pFailed' = pFailed \o InvalidOfBatch(Batch(pFiltered, pBatch))
  /\ pOutcomes' = Append(pOutcomes, "ok")
  /\ pBatch' = pBatch + 1
  /\ UNCHANGED <<pPc, pComments, pDiff, pFileLines, pValidated, pFetched, pFiltered>>
  /\ UNCHANGED OthersPublish

\* github.ts:472-489, 506-546: createReview fails on every attempt
PubBatchFails ==
  /\ pPc = "batching"
  /\ pBatch <= BatchCount(pFiltered)
  /\ ValidBatch(Batch(pFiltered, pBatch)) # <<>>
  /\ pSent' = pSent \o ValidBatch(Batch(pFiltered, pBatch))
  /\ pFailureCount' = pFailureCount + Len(Batch(pFiltered, pBatch))
  /\ pFailed' = FailedAfter(pFailed, Batch(pFiltered, pBatch))
  /\ pOutcomes' = Append(pOutcomes, "failed")
  /\ pBatch' = pBatch + 1
  /\ UNCHANGED <<pPc, pComments, pDiff, pFileLines, pValidated, pFetched, pFiltered, pSuccessCount>>
  /\ UNCHANGED OthersPublish

\* github.ts:548-584: after the last batch
PubFinish ==
  /\ pPc = "batching"
  /\ pBatch > BatchCount(pFiltered)
  /\ pPc' = IF pSuccessCount = 0 /\ Len(pComments) > 0 THEN "threw" ELSE "done"
  /\ UNCHANGED <<pComments, pDiff, pFileLines, pValidated, pFetched, pFiltered, pBatch, pSent, pSuccessCount, pFailureCount,
                 pFailed, pOutcomes>>
  /\ UNCHANGED OthersPublish

NextPublish ==
  PubFetchFails \/ PubValidate \/ PubSkipBatch \/ PubBatchOk \/ PubBatchFails \/ PubFinish

(***************************************************************************)
(* processFile (main.ts:166-297): the merge of the hunks of one file into  *)
(* review units, and the units that are sent to the model                  *)
(***************************************************************************)
MaxHunks == 3

\* A run of `count` consecutive changes of one type, as parse-diff numbers
\* them: an added line carries ln (new numbering), a removed line carries ln
\* (old numbering), an unchanged line carries ln1 and ln2, and the placeholder
\* lines of the merge loop carry none of them. `line` is the number of the
\* first change of the run.
ChangeRun(type, has, line, count) ==
  [type |-> type, has |-> has, line |-> line, count |-> count]

\* Hunks by what they change: `size` lines added, replaced or removed, or
\* removed behind one unchanged line that the hunk holds as context
HunkShapes ==
  {[kind |-> "add", size |-> 3], [kind |-> "mod", size |-> 2], [kind |-> "del", size |-> 2],
   [kind |-> "ctxdel", size |-> 2],
   [kind |-> "add", size |-> 60], [kind |-> "add", size |-> 750],
   [kind |-> "add", size |-> 2100]}

\* Unchanged lines between the end of a hunk and the start of the next
HunkGaps == {3, 50, 51}
FirstGap == 3

\* The hunk of a shape whose first new line is newPos and whose first old
\* line is oldPos; a range of no lines starts at the line before, as in the
\* hunk headers of unified diffs
HunkAt(shape, newPos, oldPos) ==
  CASE shape.kind = "add" ->
         [newStart |-> newPos, newLines |-> shape.size,
          oldStart |-> oldPos - 1, oldLines |-> 0,
          changes |-> <<ChangeRun("add", "ln", newPos, shape.size)>>]
    [] shape.kind = "mod" ->
         [newStart |-> newPos, newLines |-> shape.size,
          oldStart |-> oldPos, oldLines |-> shape.size,
          changes |-> <<ChangeRun("del", "ln", oldPos, shape.size),
                        ChangeRun("add", "ln", newPos, shape.size)>>]
    [] shape.kind = "del" ->
         [newStart |-> newPos - 1, newLines |-> 0,
          oldStart |-> oldPos, oldLines |-> shape.size,
          changes |-> <<ChangeRun("del", "ln", oldPos, shape.size)>>]
    [] shape.kind = "ctxdel" ->
         [newStart |-> newPos, newLines |-> 1,
          oldStart |-> oldPos, oldLines |-> 1 + shape.size,
          changes |-> <<ChangeRun("normal", "ln2", newPos, 1),
                        ChangeRun("del", "ln", oldPos + 1, shape.size)>>]

\* the lines a hunk of the shape takes in the new and in the old file
NewSpan(shape) ==
  CASE shape.kind = "del" -> 0 [] shape.kind = "ctxdel" -> 1 [] OTHER -> shape.size
OldSpan(shape) ==
  CASE shape.kind = "add" -> 0 [] shape.kind = "ctxdel" -> 1 + shape.size [] OTHER -> shape.size

RECURSIVE HunksFrom(_, _, _, _)
\* The hunks of a file, from the shapes and the gaps before them
HunksFrom(plan, i, newPos, oldPos) ==
  IF i > Len(plan) THEN <<>>
  ELSE <<HunkAt(plan[i].shape, newPos + plan[i].gap, oldPos + plan[i].gap)>>
       \o HunksFrom(plan, i + 1,
                    newPos + plan[i].gap + NewSpan(plan[i].shape),
                    oldPos + plan[i].gap + OldSpan(plan[i].shape))

HunkPlans ==
  {plan \in UNION {[1..n -> [shape : HunkShapes, gap : HunkGaps]] : n \in 1..MaxHunks} :
     plan[1].gap = FirstGap}

HunkLists1 == {HunksFrom(plan, 1, 1, 1) : plan \in HunkPlans}

RECURSIVE TotalSize(_)
\* the lines of the hunks, new and old, added up
TotalSize(chunks) ==
  IF chunks = <<>> THEN 0
  ELSE Head(chunks).newLines + Head(chunks).oldLines + TotalSize(Tail(chunks))

RECURSIVE UnchangedLines(_)
\* the unchanged lines the hunks hold as context
UnchangedLines(changes) ==
  IF changes = <<>> THEN 0
  ELSE (IF Head(changes).type = "normal" THEN Head(changes).count ELSE 0)
         + UnchangedLines(Tail(changes))

RECURSIVE AdditionsAndDeletions(_)
\* file.additions + file.deletions: an unchanged line counts among the new
\* and among the old lines of its hunk, and is neither
AdditionsAndDeletions(chunks) ==
  IF chunks = <<>> THEN 0
  ELSE Head(chunks).newLines + Head(chunks).oldLines - 2 * UnchangedLines(Head(chunks).changes)
         + AdditionsAndDeletions(Tail(chunks))

\* isFileTooLarge (utils/index.ts:16-23)
isFileTooLarge(chunks) == AdditionsAndDeletions(chunks) > MAX_FILE_TOTAL_LINES

\* const gap = nextStart - (currentEnd + 1)
MergeGap(current, chunk) == chunk.newStart - (current.newStart + current.newLines - 1 + 1)

MergedNeverTooLarge(current, chunk) == FALSE

\* currentTotalLines + nextTotalLines > MAX_CHUNK_TOTAL_LINES * 0.8
MergedWouldBeTooLarge(current, chunk) ==
  10 * (current.newLines + current.oldLines + chunk.newLines + chunk.oldLines)
    > 8 * MAX_CHUNK_TOTAL_LINES

\* gap > 50
GapIsTooLarge(gap) == gap > 50

\* up to 5 placeholder lines, when there is a gap (main.ts:229-243)
VirtualGapChanges(gap) ==
  IF gap > 0 THEN <<ChangeRun("normal", "none", 0, Min(gap, 5))>> ELSE <<>>

\* main.ts:245-248
MergeChunks(current, chunk) ==
  [current EXCEPT
     !.newLines = chunk.newStart + chunk.newLines - current.newStart,
     !.oldLines = current.oldLines + chunk.oldLines,
     !.changes = current.changes \o VirtualGapChanges(MergeGap(current, chunk)) \o chunk.changes]

\* const lineNumber = change.ln ?? change.ln2 ?? 0, for the first and the last
\* change of a run
RenderedFirst(run) == IF run.has = "none" THEN 0 ELSE run.line
RenderedLast(run) == IF run.has = "none" THEN 0 ELSE run.line + run.count - 1

MergeIdle ==
  /\ gPc = "idle"
  /\ gChunks = <<>>
  /\ gIdx = 0
  /\ gCurrent = <<>>
  /\ gMerged = <<>>
  /\ gUnitIdx = 0
  /\ gSent = <<>>

MergeInit ==
  /\ gPc = "start"
  /\ gChunks \in HunkLists1
  /\ gIdx = 1
  /\ gCurrent = <<>>
  /\ gMerged = <<>>
  /\ gUnitIdx = 0
  /\ gSent = <<>>

\* main.ts:170-173: a file over the size limit is skipped
FileSkip ==
  /\ gPc = "start"
  /\ isFileTooLarge(gChunks)
  /\ gPc' = "skipped"
  /\ UNCHANGED <<gChunks, gIdx, gCurrent, gMerged, gUnitIdx, gSent>>
  /\ UNCHANGED OthersMerge

\* main.ts:175-207: the file goes to the merge loop
FileAccept ==
  /\ gPc = "start"
  /\ ~isFileTooLarge(gChunks)
  /\ gPc' = "merging"
  /\ UNCHANGED <<gChunks, gIdx, gCurrent, gMerged, gUnitIdx, gSent>>
  /\ UNCHANGED OthersMerge

\* main.ts:212-215: the first hunk becomes currentChunk
MergeTakeFirst ==
  /\ gPc = "merging"
  /\ gIdx <= Len(gChunks)
  /\ gCurrent = <<>>
  /\ gCurrent' = <<gChunks[gIdx]>>
  /\ gIdx' = gIdx + 1
  /\ UNCHANGED <<gPc, gChunks, gMerged, gUnitIdx, gSent>>
  /\ UNCHANGED OthersMerge

\* main.ts:217-248: the hunk is merged into currentChunk
MergeJoin ==
  /\ gPc = "merging"
  /\ gIdx <= Len(gChunks)
  /\ gCurrent # <<>>
  /\ ~MergedWouldBeTooLarge(gCurrent[1], gChunks[gIdx])
  /\ ~GapIsTooLarge(MergeGap(gCurrent[1], gChunks[gIdx]))
  /\ gCurrent' = <<MergeChunks(gCurrent[1], gChunks[gIdx])>>
  /\ gIdx' = gIdx + 1
  /\ UNCHANGED <<gPc, gChunks, gMerged, gUnitIdx, gSent>>
  /\ UNCHANGED OthersMerge

\* main.ts:249-262: currentChunk is pushed and the hunk starts a new one
MergeKeepApart ==
  /\ gPc = "merging"
  /\ gIdx <= Len(gChunks)
  /\ gCurrent # <<>>
  /\ \/ MergedWouldBeTooLarge(gCurrent[1], gChunks[gIdx])
     \/ GapIsTooLarge(MergeGap(gCurrent[1], gChunks[gIdx]))
  /\ gMerged' = Append(gMerged, gCurrent[1])
  /\ gCurrent' = <<gChunks[gIdx]>>
  /\ gIdx' = gIdx + 1
  /\ UNCHANGED <<gPc, gChunks, gUnitIdx, gSent>>
  /\ UNCHANGED OthersMerge

\* main.ts:265-268: the last currentChunk is pushed
MergeFinish ==
  /\ gPc = "merging"
  /\ gIdx > Len(gChunks)
  /\ gMerged' = gMerged \o gCurrent
  /\ gPc' = "units"
  /\ gUnitIdx' = 1
  /\ UNCHANGED <<gChunks, gIdx, gCurrent, gSent>>
  /\ UNCHANGED OthersMerge

\* main.ts:289-298: a unit over the size limit or without new lines
UnitSkip ==
  /\ gPc = "units"
  /\ gUnitIdx <= Len(gMerged)
  /\ SkippedUnit(gMerged[gUnitIdx])
  /\ gUnitIdx' = gUnitIdx + 1
  /\ UNCHANGED <<gPc, gChunks, gIdx, gCurrent, gMerged, gSent>>
  /\ UNCHANGED OthersMerge

\* main.ts:300-308: the unit goes to createPrompt and getAIResponse
UnitSend ==
  /\ gPc = "units"
  /\ gUnitIdx <= Len(gMerged)
  /\ ~SkippedUnit(gMerged[gUnitIdx])
  /\ gSent' = Append(gSent, gMerged[gUnitIdx])
  /\ gUnitIdx' = gUnitIdx + 1
  /\ UNCHANGED <<gPc, gChunks, gIdx, gCurrent, gMerged>>
  /\ UNCHANGED OthersMerge

\* main.ts:366-367: the unit loop is over
UnitsDone ==
  /\ gPc = "units"
  /\ gUnitIdx > Len(gMerged)
  /\ gPc' = "done"
  /\ UNCHANGED <<gChunks, gIdx, gCurrent, gMerged, gUnitIdx, gSent>>
  /\ UNCHANGED OthersMerge

NextMerge ==
  \/ FileSkip \/ FileAccept
  \/ MergeTakeFirst \/ MergeJoin \/ MergeKeepApart \/ MergeFinish
  \/ UnitSkip \/ UnitSend \/ UnitsDone

(***************************************************************************)
(* The parse stages of getOpenAIResponse (ai.ts:639-746) and               *)
(* getAnthropicResponse (ai.ts:831-876)                                    *)
(***************************************************************************)
MaxTokens == 4

\* The reviews a content holds: one that validateAIResponse accepts, one it
\* rejects (its line number is no number), one it throws on (its
\* reviewComment is a number)
ParseFindings ==
  {AIFinding(JsNumber(IntNum(2)), JsString(<<"o", "k">>)),
   AIFinding(JsString(<<"a", "b", "c">>), JsString(<<"o", "k">>)),
   AIFinding(JsNumber(IntNum(2)), JsNumber(IntNum(7)))}

\* The content of a response, cut into the pieces the parse stages tell
\* apart:
\*   head   {"reviews":[
\*   obj    a complete review object without nested braces, { ... }
\*   comma  ,
\*   cut    the beginning of a review object, cut off before its closing brace
\*   tail   ]}
\*   brace  }
Tok(t) == [t |-> t, review |-> IdleFinding]
ContentTokens ==
  {Tok("head"), Tok("comma"), Tok("cut"), Tok("tail"), Tok("brace")}
    \cup {[t |-> "obj", review |-> f] : f \in ParseFindings}
Contents == UNION {[1..n -> ContentTokens] : n \in 1..MaxTokens}

EndsWithBrace(tok) == tok.t \in {"obj", "tail", "brace"}
StartsWithBracket(tok) == tok.t = "tail"
StartsWithBrace(tok) == tok.t \in {"head", "obj", "cut"}

\* the tokens a..b are review objects separated by commas, at least one
IsObjectList(content, a, b) ==
  /\ a <= b
  /\ (b - a) % 2 = 0
  /\ \A i \in a..b : content[i].t = (IF (i - a) % 2 = 0 THEN "obj" ELSE "comma")

\* the review objects among the tokens a..b, in order
ObjectsIn(content, a, b) ==
  LET RECURSIVE From(_)
      From(i) == IF i > b THEN <<>>
                 ELSE (IF content[i].t = "obj" THEN <<content[i].review>> ELSE <<>>)
                        \o From(i + 1)
  IN From(a)

\* const parsedResponse = JSON.parse(content); const reviews =
\* parsedResponse.reviews || [] (ai.ts:640-641, 831-832): the reviews array of
\* a well-formed content, [] for a content that is one object without a
\* reviews key, and an exception for every other content
StrictParse(content) ==
  IF /\ Len(content) >= 2
     /\ content[1].t = "head"
     /\ content[Len(content)].t = "tail"
     /\ (Len(content) = 2 \/ IsObjectList(content, 2, Len(content) - 1))
  THEN Returns(ObjectsIn(content, 2, Len(content) - 1))
  ELSE IF Len(content) = 1 /\ content[1].t = "obj" THEN Returns(<<>>)
  ELSE Throws

\* (\}\s*\]|\}\s*,\s*\{) matches at the end of token j: a closing brace
\* followed by ], or by a comma and an opening brace
BraceThenNext(content, j) ==
  /\ EndsWithBrace(content[j])
  /\ j < Len(content)
  /\ \/ StartsWithBracket(content[j + 1])
     \/ /\ content[j + 1].t = "comma"
        /\ j + 2 <= Len(content)
        /\ StartsWithBrace(content[j + 2])

\* contentNoNewlines.match(/"reviews"\s*:\s*\[\s*(.*?)(\}\s*\]|\}\s*,\s*\{)/)
\* (ai.ts:693-694): from the first "reviews": [ on, the shortest text up to a
\* closing brace that ] or , { follows; group 1 is the text between the two,
\* the closing brace not included
LargestMatch(content) ==
  LET heads == {h \in 1..Len(content) :
                  /\ content[h].t = "head"
                  /\ \E j \in (h + 1)..Len(content) : BraceThenNext(content, j)}
  IN IF heads = {} THEN [found |-> FALSE, h |-> 0, j |-> 0]
     ELSE LET h == CHOOSE x \in heads : \A y \in heads : x <= y
              ends == {j \in (h + 1)..Len(content) : BraceThenNext(content, j)}
          IN [found |-> TRUE, h |-> h, j |-> CHOOSE x \in ends : \A y \in ends : x <= y]

\* lastCompleteReviewMatch && lastCompleteReviewMatch[1] (ai.ts:696): a match
\* whose group 1 is not the empty text
GroupNotEmpty(content, m) ==
  m.found /\ ~(m.j = m.h + 1 /\ content[m.j].t = "brace")

\* JSON.parse(`{"reviews":[${lastCompleteReviewMatch[1]}]}`).reviews
\* (ai.ts:698-701): group 1 ends where the brace it stopped at has been taken
\* off, so the text parses only when that brace was a brace too many
SalvageRebuilt(content, m) ==
  IF content[m.j].t = "brace" /\ IsObjectList(content, m.h + 1, m.j - 1)
  THEN Returns(ObjectsIn(content, m.h + 1, m.j - 1))
  ELSE Throws

\* content.match(/\{[^{}]*\}/g), JSON.parse of each (ai.ts:717-726): the
\* spans from an opening brace to the next closing brace with no brace
\* between; those that parse to an object with a line number are the obj
\* tokens
FlatObjects(content) == ObjectsIn(content, 1, Len(content))

ParseIdle ==
  /\ sPc = "idle"
  /\ sProvider = "openai"
  /\ sContent = <<>>
  /\ sTried = <<>>
  /\ sResult = NullResponse

\* the content is not empty (ai.ts:634-637, 826-829 return null for an empty
\* one before any parse)
ParseInit ==
  /\ sPc = "strict"
  /\ sProvider \in Providers
  /\ sContent \in Contents
  /\ sTried = <<>>
  /\ sResult = NullResponse

\* ai.ts:639-649, 831-840: the content parses and the validation of its
\* reviews does not throw
ParseStrictReturns ==
  /\ sPc = "strict"
  /\ StrictParse(sContent).kind = "return"
  /\ LET reviews == StrictParse(sContent).val
         filtered == FilterValid(reviews, Validations(reviews))
     IN /\ filtered.kind = "return"
        /\ sResult' = ListResponse(filtered.val)
  /\ sTried' = Append(sTried, "strict")
  /\ sPc' = "done"
  /\ UNCHANGED <<sProvider, sContent>>
  /\ UNCHANGED OthersParse

\* whether the try of ai.ts:639-649 (831-840) ends in its catch
StrictFails(content) ==
  IF StrictParse(content).kind = "throw" THEN TRUE
  ELSE FilterValid(StrictParse(content).val, Validations(StrictParse(content).val)).kind = "throw"

\* ai.ts:841-876: the catch of getAnthropicResponse logs and returns null
ParseStrictFailsAnthropic ==
  /\ sPc = "strict"
  /\ sProvider = "anthropic"
  /\ StrictFails(sContent)
  /\ sResult' = NullResponse
  /\ sTried' = Append(sTried, "strict")
  /\ sPc' = "done"
  /\ UNCHANGED <<sProvider, sContent>>
  /\ UNCHANGED OthersParse

\* ai.ts:650-687: the catch of getOpenAIResponse logs and goes on to salvage
ParseStrictFails ==
  /\ sPc = "strict"
  /\ sProvider = "openai"
  /\ StrictFails(sContent)
  /\ sTried' = Append(sTried, "strict")
  /\ sPc' = "largest"
  /\ UNCHANGED <<sProvider, sContent, sResult>>
  /\ UNCHANGED OthersParse

\* ai.ts:693-712: the pattern matches, the rebuilt text parses and holds
\* reviews; they are returned filtered, and a throw of the validator ends in
\* the catch of ai.ts:735 and return null
SalvageLargestReturns ==
  /\ sPc = "largest"
  /\ GroupNotEmpty(sContent, LargestMatch(sContent))
  /\ LET parsed == SalvageRebuilt(sContent, LargestMatch(sContent))
     IN /\ parsed.kind = "return"
        /\ sResult' = FilteredOrNull(FilterValid(parsed.val, Validations(parsed.val))).val
  /\ sTried' = Append(sTried, "largest")
  /\ sPc' = "done"
  /\ UNCHANGED <<sProvider, sContent>>
  /\ UNCHANGED OthersParse

\* ai.ts:693-701, 735-741: the pattern matches and JSON.parse of the rebuilt
\* text throws: the catch around both salvage stages logs, and the function
\* returns null
SalvageLargestThrows ==
  /\ sPc = "largest"
  /\ GroupNotEmpty(sContent, LargestMatch(sContent))
  /\ SalvageRebuilt(sContent, LargestMatch(sContent)).kind = "throw"
  /\ sResult' = NullResponse
  /\ sTried' = Append(sTried, "largest")
  /\ sPc' = "done"
  /\ UNCHANGED <<sProvider, sContent>>
  /\ UNCHANGED OthersParse

\* ai.ts:696, 714: no match, or an empty group 1
SalvageLargestNoMatch ==
  /\ sPc = "largest"
  /\ ~GroupNotEmpty(sContent, LargestMatch(sContent))
  /\ sTried' = Append(sTried, "largest")
  /\ sPc' = "fragments"
  /\ UNCHANGED <<sProvider, sContent, sResult>>
  /\ UNCHANGED OthersParse

\* ai.ts:716-733: the flat objects that validate are returned
SalvageFragmentsReturns ==
  /\ sPc = "fragments"
  /\ LET objs == FlatObjects(sContent)
         valid == ValidObjects(objs, Validations(objs))
     IN /\ valid # <<>>
        /\ sResult' = ListResponse(valid)
  /\ sTried' = Append(sTried, "fragments")
  /\ sPc' = "done"
  /\ UNCHANGED <<sProvider, sContent>>
  /\ UNCHANGED OthersParse

\* ai.ts:716-743: no flat object validates; return null
SalvageFragmentsEmpty ==
  /\ sPc = "fragments"
  /\ LET objs == FlatObjects(sContent)
     IN ValidObjects(objs, Validations(objs)) = <<>>
  /\ sResult' = NullResponse
  /\ sTried' = Append(sTried, "fragments")
  /\ sPc' = "done"
  /\ UNCHANGED <<sProvider, sContent>>
  /\ UNCHANGED OthersParse

NextParse ==
  \/ ParseStrictReturns \/ ParseStrictFailsAnthropic \/ ParseStrictFails
  \/ SalvageLargestReturns \/ SalvageLargestThrows \/ SalvageLargestNoMatch
  \/ SalvageFragmentsReturns \/ SalvageFragmentsEmpty

(***************************************************************************)
(* main (main.ts:464-764): one run of the action                           *)
(***************************************************************************)
MaxMainFindings == 2

\* The diff of the run: one file, one hunk of new lines 1-5
MainFile == [to |-> FileA]
MainUnit == [newStart |-> 1, newLines |-> 5, oldLines |-> 0]

TextNullCheck == <<"n", "u", "l", "l", " ", "c", "h", "e", "c", "k", " ", "m", "i", "s", "s", "i", "n", "g">>
TextLoopBound == <<"l", "o", "o", "p", " ", "b", "o", "u", "n", "d", " ", "w", "r", "o", "n", "g">>

MainFinding(line, text) ==
  [lineNumber |-> line, reviewComment |-> JsString(text),
   severity |-> JsString(SeverityError), filePath |-> JsString(FileA),
   suggestion |-> NoSuggestion]

\* Findings of a reply: two inside the hunk, one whose line number is no
\* number
MainFindings ==
  {MainFinding(JsNumber(IntNum(3)), TextNullCheck),
   MainFinding(JsNumber(IntNum(5)), TextLoopBound),
   MainFinding(JsString(<<"a", "b", "c">>), TextNullCheck)}

MainReviewLists == UNION {[1..n -> MainFindings] : n \in 0..MaxMainFindings}

\* A comment of createComment as a ReviewComment; the findings of MainFindings
\* that pass the validator carry whole line numbers
AsReviewComment(c) == [path |-> c.path, line |-> c.line.m, body |-> c.body, side |-> c.side]

AsReviewComments(cs) ==
  IF cs.kind = "throw" THEN <<>>   \* caught by analyzeCode (main.ts:430-435)
  ELSE [i \in 1..Len(cs.val) |-> AsReviewComment(cs.val[i])]

\* analyzeCode (main.ts:376-458) on the one file: processFile hands the unit
\* to getAIResponse, which returns the findings that pass the validator
MainResponseNull(filtered) == NullResponse

\* getAIResponse on a reply that parses: null when the validator throws
MainResponse(filtered) ==
  IF filtered.kind = "throw" THEN NullResponse ELSE ListResponse(filtered.val)

analyzeCode(reviews, vs, patternMatches) ==
  AsReviewComments(
    ResponseComments(Returns(MainResponse(FilterValid(reviews, vs))),
                     MainFile, MainUnit, patternMatches))

\* The live comments and the history an earlier run may have left
MainExistingLists ==
  {<<>>, <<[path |-> FileA, line |-> 3, body |-> BodyNullCheck, side |-> "RIGHT"]>>}

IsPushEventNever(eventType) == FALSE

\* prDetails.eventType === "push" (main.ts:597)
IsPushEvent(eventType) == eventType = "push"

\* The diff createReviewComment fetches, and the length of a.ts
MainDiff ==
  [f \in PubFiles |->
     IF f = FileA THEN [present |-> TRUE, chunks |-> <<[newStart |-> 1, newLines |-> 5]>>]
     ELSE AbsentFile]
MainFileLines == [f \in PubFiles |-> 6]

\* github.ts:312-424 on the list main hands over
MainRevalidated(comments) ==
  NonNull(Revalidated(comments, MainDiff, [i \in 1..Len(comments) |-> TRUE], MainFileLines))

\* createReviewComment (github.ts:273-584) on a list of at most BATCH_SIZE
\* comments, which make one batch: whether it threw, the calls of
\* pulls.createReview it made, and successCount
CreateReviewOutcome(comments, filtered, valid, fetchOk, createOk) ==
  IF ~fetchOk THEN [threw |-> TRUE, calls |-> 0, success |-> 0]
  ELSE IF filtered = <<>> THEN [threw |-> FALSE, calls |-> 0, success |-> 0]
  ELSE IF valid = <<>> THEN [threw |-> Len(comments) > 0, calls |-> 0, success |-> 0]
  ELSE IF createOk THEN [threw |-> FALSE, calls |-> 1, success |-> Len(valid)]
  ELSE [threw |-> Len(comments) > 0, calls |-> MAX_RETRIES, success |-> 0]

\* AI_PROVIDER and the credentials of a run: whether each input is set
\* (core.getInput gives "" for an input that is not set)
MainConfigs ==
  [provider : Providers, openaiKey : BOOLEAN, anthropicKey : BOOLEAN, githubToken : BOOLEAN]
IdleConfig ==
  [provider |-> "openai", openaiKey |-> TRUE, anthropicKey |-> TRUE, githubToken |-> TRUE]

ValidateConfigNever(config) == Returns(TRUE)

\* validateConfig (main.ts:129-156)
validateConfig(config) ==
  IF config.provider = "anthropic" /\ ~config.anthropicKey THEN Throws
  ELSE IF config.provider # "anthropic" /\ ~config.openaiKey THEN Throws
  ELSE IF ~config.githubToken THEN Throws
  ELSE Returns(TRUE)

\* The event data: GITHUB_EVENT_PATH is not set ("missing"), the file is
\* no JSON ("unparsable"), the fields getPRDetails needs of it are not
\* there ("incomplete"), or it is the data of the event of the run ("ok")
EventDatas == {"ok", "missing", "unparsable", "incomplete"}

\* getPRDetails (github.ts:15-108): the event type, or the error thrown
getPRDetails(eventData, eventType) ==
  IF eventData = "ok" THEN Returns(eventType) ELSE Throws

\* validateConfig and getPRDetails have both returned
InputsAccepted(config, eventData, eventType) ==
  /\ validateConfig(config).kind = "return"
  /\ getPRDetails(eventData, eventType).kind = "return"

MainIdle ==
  /\ mPc = "idle"
  /\ mEvent = "pull_request"
  /\ mCacheEnabled = FALSE
  /\ mSummaryEnabled = FALSE
  /\ mReviews = <<>>
  /\ mComments = <<>>
  /\ mLive = <<>>
  /\ mHistory = <<>>
  /\ mHistorical = <<>>
  /\ mFiltered = <<>>
  /\ mSubmitted = <<>>
  /\ mStoreOutcome = "none"
  /\ mReviewCalls = 0
  /\ mSuccessCount = 0
  /\ mPubThrew = FALSE
  /\ mHistoryReads = 0
  /\ mHistoryWrites = 0
  /\ mLogged = <<>>
  /\ mStatus = "running"
  /\ mInputError = FALSE
  /\ mConfig = IdleConfig
  /\ mEventData = "ok"
  /\ mModelCalls = 0

MainInit ==
  /\ mPc = "start"
  /\ mEvent \in {"pull_request", "push"}
  /\ mCacheEnabled \in BOOLEAN
  /\ mSummaryEnabled \in BOOLEAN
  /\ mReviews = <<>>
  /\ mComments = <<>>
  /\ mLive \in MainExistingLists
  /\ mHistory \in MainExistingLists
  /\ mHistorical = <<>>
  /\ mFiltered = <<>>
  /\ mSubmitted = <<>>
  /\ mStoreOutcome = "none"
  /\ mReviewCalls = 0
  /\ mSuccessCount = 0
  /\ mPubThrew = FALSE
  /\ mHistoryReads = 0
  /\ mHistoryWrites = 0
  /\ mLogged = <<>>
  /\ mStatus = "running"
  /\ mInputError = FALSE
  /\ mConfig \in MainConfigs
  /\ mEventData \in EventDatas
  /\ mModelCalls = 0

\* main.ts:491, 732-762: validateConfig throws; the catch of main calls
\* core.setFailed
MainConfigError ==
  /\ mPc = "start"
  /\ validateConfig(mConfig).kind = "throw"
  /\ mInputError' = TRUE
  /\ mStatus' = "failed"
  /\ mPc' = "ended"
  /\ UNCHANGED <<mEvent, mCacheEnabled, mSummaryEnabled, mReviews, mComments, mLive, mHistory,
                 mHistorical, mFiltered, mSubmitted, mStoreOutcome, mReviewCalls, mSuccessCount,
                 mPubThrew, mHistoryReads, mHistoryWrites, mLogged, mConfig, mEventData,
                 mModelCalls>>
  /\ UNCHANGED OthersMain

\* main.ts:495, 732-762: getPRDetails throws on the event data and rethrows
\* (github.ts:104-107); the catch of main calls core.setFailed
MainEventError ==
  /\ mPc = "start"
  /\ validateConfig(mConfig).kind = "return"
  /\ getPRDetails(mEventData, mEvent).kind = "throw"
  /\ mInputError' = TRUE
  /\ mStatus' = "failed"
  /\ mPc' = "ended"
  /\ UNCHANGED <<mEvent, mCacheEnabled, mSummaryEnabled, mReviews, mComments, mLive, mHistory,
                 mHistorical, mFiltered, mSubmitted, mStoreOutcome, mReviewCalls, mSuccessCount,
                 mPubThrew, mHistoryReads, mHistoryWrites, mLogged, mConfig, mEventData,
                 mModelCalls>>
  /\ UNCHANGED OthersMain

\* main.ts:495-543, 732-762: the request of getPRDetails for the pull
\* request, or getDiff, throws; the catch of main calls core.setFailed
MainInputError ==
  /\ mPc = "start"
  /\ InputsAccepted(mConfig, mEventData, mEvent)
  /\ mInputError' = TRUE
  /\ mStatus' = "failed"
  /\ mPc' = "ended"
  /\ UNCHANGED <<mEvent, mCacheEnabled, mSummaryEnabled, mReviews, mComments, mLive, mHistory,
                 mHistorical, mFiltered, mSubmitted, mStoreOutcome, mReviewCalls, mSuccessCount,
                 mPubThrew, mHistoryReads, mHistoryWrites, mLogged, mConfig, mEventData,
                 mModelCalls>>
  /\ UNCHANGED OthersMain

\* main.ts:545-548: no diff
MainNoDiff ==
  /\ mPc = "start"
  /\ InputsAccepted(mConfig, mEventData, mEvent)
  /\ mStatus' = "success"
  /\ mPc' = "ended"
  /\ UNCHANGED <<mEvent, mCacheEnabled, mSummaryEnabled, mReviews, mComments, mLive, mHistory,
                 mHistorical, mFiltered, mSubmitted, mStoreOutcome, mReviewCalls, mSuccessCount,
                 mPubThrew, mHistoryReads, mHistoryWrites, mLogged, mInputError, mConfig, mEventData, mModelCalls>>
  /\ UNCHANGED OthersMain

\* main.ts:578: analyzeCode, the model answering with a list of reviews
MainAnalyze ==
  /\ mPc = "start"
  /\ InputsAccepted(mConfig, mEventData, mEvent)
  /\ mModelCalls' = mModelCalls + 1
  /\ \E reviews \in MainReviewLists, patternMatches \in BOOLEAN :
       /\ mReviews' = reviews
       /\ mComments' = analyzeCode(reviews, Validations(reviews), patternMatches)
  /\ mPc' = "analyzed"
  /\ UNCHANGED <<mEvent, mCacheEnabled, mSummaryEnabled, mLive, mHistory,
                 mHistorical, mFiltered, mSubmitted, mStoreOutcome, mReviewCalls, mSuccessCount,
                 mPubThrew, mHistoryReads, mHistoryWrites, mLogged, mStatus, mInputError, mConfig, mEventData>>
  /\ UNCHANGED OthersMain

\* main.ts:581, 726-731: no comments
MainNoComments ==
  /\ mPc = "analyzed"
  /\ mComments = <<>>
  /\ mStatus' = "success"
  /\ mPc' = "ended"
  /\ UNCHANGED <<mEvent, mCacheEnabled, mSummaryEnabled, mReviews, mComments, mLive, mHistory,
                 mHistorical, mFiltered, mSubmitted, mStoreOutcome, mReviewCalls, mSuccessCount,
                 mPubThrew, mHistoryReads, mHistoryWrites, mLogged, mInputError, mConfig, mEventData, mModelCalls>>
  /\ UNCHANGED OthersMain

\* main.ts:597-610: a push event; the comments are logged and main returns
MainPushLog ==
  /\ mPc = "analyzed"
  /\ mComments # <<>>
  /\ IsPushEvent(mEvent)
  /\ mLogged' = mComments
  /\ mStatus' = "success"
  /\ mPc' = "ended"
  /\ UNCHANGED <<mEvent, mCacheEnabled, mSummaryEnabled, mReviews, mComments, mLive, mHistory,
                 mHistorical, mFiltered, mSubmitted, mStoreOutcome, mReviewCalls, mSuccessCount,
                 mPubThrew, mHistoryReads, mHistoryWrites, mInputError, mConfig, mEventData, mModelCalls>>
  /\ UNCHANGED OthersMain

\* main.ts:613-670: the live comments, getCommentHistory (which reads the
\* stored history only when the cache is enabled, and returns [] when the
\* read fails or the entry has expired), and the filter
MainFilter ==
  /\ mPc = "analyzed"
  /\ mComments # <<>>
  /\ ~IsPushEvent(mEvent)
  /\ \E readable \in BOOLEAN :
       mHistorical' = IF mCacheEnabled /\ readable THEN mHistory ELSE <<>>
  /\ mHistoryReads' = IF mCacheEnabled THEN mHistoryReads + 1 ELSE mHistoryReads
  /\ mFiltered' = FilterComments(mComments, mLive, mHistorical')
  /\ mPc' = "filtered"
  /\ UNCHANGED <<mEvent, mCacheEnabled, mSummaryEnabled, mReviews, mComments, mLive, mHistory,
                 mSubmitted, mStoreOutcome, mReviewCalls, mSuccessCount,
                 mPubThrew, mHistoryWrites, mLogged, mStatus, mInputError, mConfig, mEventData, mModelCalls>>
  /\ UNCHANGED OthersMain

\* main.ts:673: storeCommentHistory (unnamed/part_009:141-196) with the cache
\* disabled
MainStoreDisabled ==
  /\ mPc = "filtered"
  /\ ~mCacheEnabled
  /\ mStoreOutcome' = "disabled"
  /\ mPc' = "stored"
  /\ UNCHANGED <<mEvent, mCacheEnabled, mSummaryEnabled, mReviews, mComments, mLive, mHistory,
                 mHistorical, mFiltered, mSubmitted, mReviewCalls, mSuccessCount,
                 mPubThrew, mHistoryReads, mHistoryWrites, mLogged, mStatus, mInputError, mConfig, mEventData, mModelCalls>>
  /\ UNCHANGED OthersMain

\* main.ts:673: storeCommentHistory with the cache enabled: the stored history
\* is restored (hit) or not, the new comments are appended to what was
\* restored, and the save takes effect (saved) or not
MainStoreHistory ==
  /\ mPc = "filtered"
  /\ mCacheEnabled
  /\ \E hit \in BOOLEAN, saved \in BOOLEAN :
       /\ mHistory' = IF saved
                      THEN HistoryAfterStore(IF hit THEN mHistory ELSE <<>>, mFiltered)
                      ELSE mHistory
       /\ mStoreOutcome' = IF saved THEN "saved" ELSE "failed"
       /\ mHistoryWrites' = IF saved THEN mHistoryWrites + 1 ELSE mHistoryWrites
  /\ mHistoryReads' = mHistoryReads + 1
  /\ mPc' = "stored"
  /\ UNCHANGED <<mEvent, mCacheEnabled, mSummaryEnabled, mReviews, mComments, mLive,
                 mHistorical, mFiltered, mSubmitted, mReviewCalls, mSuccessCount,
                 mPubThrew, mLogged, mStatus, mInputError, mConfig, mEventData, mModelCalls>>
  /\ UNCHANGED OthersMain

\* main.ts:682-687: every candidate was a duplicate
MainNothingToAdd ==
  /\ mPc = "stored"
  /\ mFiltered = <<>>
  /\ mStatus' = "success"
  /\ mPc' = "ended"
  /\ UNCHANGED <<mEvent, mCacheEnabled, mSummaryEnabled, mReviews, mComments, mLive, mHistory,
                 mHistorical, mFiltered, mSubmitted, mStoreOutcome, mReviewCalls, mSuccessCount,
                 mPubThrew, mHistoryReads, mHistoryWrites, mLogged, mInputError, mConfig, mEventData, mModelCalls>>
  /\ UNCHANGED OthersMain

\* main.ts:690-708: with ENABLE_SUMMARY the summary, unless it is empty, goes
\* in front as a comment on line 1 of the first file
MainAddSummary ==
  /\ mPc = "stored"
  /\ mFiltered # <<>>
  /\ \E empty \in BOOLEAN :
       mSubmitted' = (IF mSummaryEnabled /\ ~empty THEN <<SummaryComment>> ELSE <<>>)
                       \o mFiltered
  /\ mModelCalls' = IF mSummaryEnabled THEN mModelCalls + 1 ELSE mModelCalls
  /\ mPc' = "publishing"
  /\ UNCHANGED <<mEvent, mCacheEnabled, mSummaryEnabled, mReviews, mComments, mLive, mHistory,
                 mHistorical, mFiltered, mStoreOutcome, mReviewCalls, mSuccessCount,
                 mPubThrew, mHistoryReads, mHistoryWrites, mLogged, mStatus, mInputError, mConfig, mEventData>>
  /\ UNCHANGED OthersMain

PublishOutcomes(comments) ==
  {CreateReviewOutcome(comments, MainRevalidated(comments),
                       ValidBatch(MainRevalidated(comments)), fetchOk, createOk) :
     fetchOk \in BOOLEAN, createOk \in BOOLEAN}

\* main.ts:711-731: createReviewComment; what it throws is caught and logged,
\* and main goes on to its last lines
MainPublish ==
  /\ mPc = "publishing"
  /\ \E o \in PublishOutcomes(mSubmitted) :
       /\ mReviewCalls' = mReviewCalls + o.calls
       /\ mSuccessCount' = o.success
       /\ mPubThrew' = o.threw
       /\ mLogged' = IF o.threw THEN mSubmitted ELSE mLogged
  /\ mStatus' = "success"
  /\ mPc' = "ended"
  /\ UNCHANGED <<mEvent, mCacheEnabled, mSummaryEnabled, mReviews, mComments, mLive, mHistory,
                 mHistorical, mFiltered, mSubmitted, mStoreOutcome,
                 mHistoryReads, mHistoryWrites, mInputError, mConfig, mEventData, mModelCalls>>
  /\ UNCHANGED OthersMain

NextMain ==
  \/ MainConfigError \/ MainEventError \/ MainInputError \/ MainNoDiff \/ MainAnalyze \/ MainNoComments \/ MainPushLog
  \/ MainFilter \/ MainStoreDisabled \/ MainStoreHistory \/ MainNothingToAdd
  \/ MainAddSummary \/ MainPublish

(***************************************************************************)
(* analyzeCode: files in concurrent groups (main.ts:379-458 and the        *)
(* earlier analyzeCode of part_004:269-361, whose chunks of one file run   *)
(* in concurrent groups as well)                                           *)
(***************************************************************************)
OthersAnalyze == <<retryVars, limVars, valVars, aiVars, dedupVars, pubVars, mainVars, mergeVars,
                   parseVars, similarVars>>

CONCURRENT_FILES == 3
CONCURRENT_CHUNKS == 2

MaxFileUnits == 3
MaxFindings == 2

Variants == {"main.ts", "part_004"}

UnitsAllAtOnce(variant) == MaxFileUnits

\* how many units of one file are handed to getAIResponse before the file
\* waits: main.ts:280-308 awaits every unit in its for loop, part_004:302-337
\* maps a slice of CONCURRENT_CHUNKS chunks and awaits them together
UnitsAtOnce(variant) == IF variant = "main.ts" THEN 1 ELSE CONCURRENT_CHUNKS

\* A file of the diff: deleted (file.to is /dev/null), too large, or with a
\* number of units; throwsAt is the unit whose createPrompt throws, 0 for none
DeletedFile == [kind |-> "deleted", units |-> 0, throwsAt |-> 0]
LargeFile == [kind |-> "tooLarge", units |-> 0, throwsAt |-> 0]
OkFile(n, t) == [kind |-> "ok", units |-> n, throwsAt |-> t]

FileLists ==
  {<<>>,
   <<DeletedFile>>,
   <<OkFile(2, 0), OkFile(2, 0), OkFile(2, 0)>>,
   <<OkFile(1, 0), DeletedFile, LargeFile, OkFile(1, 0)>>,
   <<OkFile(MaxFileUnits, 0), OkFile(1, 1)>>,
   <<OkFile(2, 2), LargeFile, OkFile(1, 0), OkFile(1, 0)>>}

\* the findings of unit u of file f, as the comments made of them
UnitComments(f, u, n) == [k \in 1..n |-> [file |-> f, unit |-> u, finding |-> k]]

NotStarted ==
  [state |-> "pending", j |-> 0,
   phase |-> [u \in 1..MaxFileUnits |-> "idle"],
   res |-> [u \in 1..MaxFileUnits |-> <<>>],
   comments |-> <<>>]

FileNeverEnded(rec) == FALSE

\* the promise of the file's callback is settled (main.ts:435)
FileEnded(rec) == rec.state \in {"returned", "skipped", "failed"}

\* the units j+1 .. j+UnitsAtOnce of a file
UnitSlice(desc, j, variant) ==
  {u \in 1..desc.units : u > j /\ u <= j + UnitsAtOnce(variant)}

RECURSIVE FlatUnits(_, _, _)
\* chunkComments.flat(): the results of the units lo..hi, in unit order
FlatUnits(res, lo, hi) ==
  IF lo > hi THEN <<>> ELSE FlatUnits(res, lo, hi - 1) \o res[hi]

\* The code of one file from the top of its unit loop to its next await.
\* main.ts: after the last unit processFile returns its comments; a throw in
\* the unit at hand leaves processFile and is caught at main.ts:426-431,
\* which returns []. part_004: every chunk of the slice has its own try
\* (part_004:309-333), so a throw makes that chunk's result [].
StartSlice(rec, desc, variant) ==
  IF rec.j >= desc.units THEN [rec EXCEPT !.state = "returned"]
  ELSE IF variant = "main.ts" /\ desc.throwsAt \in UnitSlice(desc, rec.j, variant)
  THEN [rec EXCEPT !.state = "failed", !.comments = <<>>]
  ELSE [rec EXCEPT !.phase =
          [u \in 1..MaxFileUnits |->
             IF u \in UnitSlice(desc, rec.j, variant)
             THEN (IF desc.throwsAt = u THEN "returned" ELSE "calling")
             ELSE rec.phase[u]]]

\* the async callback of fileBatch.map up to its first await
\* (main.ts:410-432, part_004:284-345)
StartFile(desc, variant) ==
  IF desc.kind \in {"deleted", "tooLarge"} THEN [NotStarted EXCEPT !.state = "skipped"]
  ELSE StartSlice([NotStarted EXCEPT !.state = "running"], desc, variant)

\* the files i+1 .. i+CONCURRENT_FILES: filesToAnalyze.slice(i, i + CONCURRENT_FILES)
GroupOf(files, i) == {f \in 1..Len(files) : f > i /\ f <= i + CONCURRENT_FILES}

RECURSIVE EndedInOrder(_, _, _)
\* the files lo..hi that have ended, in index order
EndedInOrder(run, lo, hi) ==
  IF lo > hi THEN <<>>
  ELSE EndedInOrder(run, lo, hi - 1) \o (IF FileEnded(run[hi]) THEN <<hi>> ELSE <<>>)

RECURSIVE CommentsByCompletion(_, _, _, _)
CommentsByCompletion(run, order, lo, hi) ==
  IF order = <<>> THEN <<>>
  ELSE (IF Head(order) >= lo /\ Head(order) <= hi THEN run[Head(order)].comments ELSE <<>>)
         \o CommentsByCompletion(run, Tail(order), lo, hi)

RECURSIVE GroupComments(_, _, _, _)
\* (await Promise.all(fileCommentsPromises)).flat(): the comments of the
\* files lo..hi in the order of the promises, whatever the order in which
\* they were settled (main.ts:435-438)
GroupComments(run, order, lo, hi) ==
  IF lo > hi THEN <<>> ELSE GroupComments(run, order, lo, hi - 1) \o run[hi].comments

CountIn(run, group, state) == Cardinality({f \in group : run[f].state = state})

AnalyzeIdle ==
  /\ zPc = "idle"
  /\ zVariant = "main.ts"
  /\ zFiles = <<>>
  /\ zI = 0
  /\ zRun = <<>>
  /\ zOrder = <<>>
  /\ zComments = <<>>
  /\ processedFiles = 0
  /\ skippedFiles = 0
  /\ erroredFiles = 0

AnalyzeInit ==
  /\ zPc = "loop"
  /\ zVariant \in Variants
  /\ zFiles \in FileLists
  /\ zI = 0
  /\ zRun = [f \in 1..Len(zFiles) |-> NotStarted]
  /\ zOrder = <<>>
  /\ zComments = <<>>
  /\ processedFiles = 0
  /\ skippedFiles = 0
  /\ erroredFiles = 0

\* the counters of main.ts:391-393 after a step from run to next; part_004
\* keeps no counters
CountersAfter(run, next) ==
  IF zVariant = "main.ts"
  THEN /\ skippedFiles' = skippedFiles
                            + CountIn(next, DOMAIN next, "skipped") - CountIn(run, DOMAIN run, "skipped")
       /\ erroredFiles' = erroredFiles
                            + CountIn(next, DOMAIN next, "failed") - CountIn(run, DOMAIN run, "failed")
       /\ UNCHANGED processedFiles
  ELSE UNCHANGED <<processedFiles, skippedFiles, erroredFiles>>

\* main.ts:400-433: the callbacks of one group are started one after the
\* other, each running up to its first await
GroupStart ==
  /\ zPc = "loop"
  /\ zI < Len(zFiles)
  /\ zRun' = [f \in 1..Len(zFiles) |->
                IF f \in GroupOf(zFiles, zI) THEN StartFile(zFiles[f], zVariant) ELSE zRun[f]]
  /\ zOrder' = zOrder \o EndedInOrder(zRun', zI + 1, Min(zI + CONCURRENT_FILES, Len(zFiles)))
  /\ CountersAfter(zRun, zRun')
  /\ zPc' = "awaiting"
  /\ UNCHANGED <<zVariant, zFiles, zI, zComments>>
  /\ UNCHANGED OthersAnalyze

\* getAIResponse of one unit returns: null, [] or findings
UnitReturn ==
  /\ zPc = "awaiting"
  /\ \E f \in GroupOf(zFiles, zI), u \in 1..MaxFileUnits, n \in {0, MaxFindings} :
       /\ zRun[f].state = "running"
       /\ zRun[f].phase[u] = "calling"
       /\ zRun' = [zRun EXCEPT ![f].phase[u] = "returned",
                               ![f].res[u] = UnitComments(f, u, n)]
  /\ UNCHANGED <<zPc, zVariant, zFiles, zI, zOrder, zComments, processedFiles, skippedFiles,
                 erroredFiles>>
  /\ UNCHANGED OthersAnalyze

\* the file goes on after its await: the results of its units are pushed
\* in unit order and the loop turns to the next units (main.ts:310-358,
\* part_004:335-341)
FileContinue ==
  /\ zPc = "awaiting"
  /\ \E f \in GroupOf(zFiles, zI) :
       /\ zRun[f].state = "running"
       /\ \A u \in UnitSlice(zFiles[f], zRun[f].j, zVariant) : zRun[f].phase[u] = "returned"
       /\ LET hi == Min(zRun[f].j + UnitsAtOnce(zVariant), zFiles[f].units)
              pushed == [zRun[f] EXCEPT
                           !.comments = @ \o FlatUnits(zRun[f].res, zRun[f].j + 1, hi),
                           !.j = hi]
              next == StartSlice(pushed, zFiles[f], zVariant)
          IN /\ zRun' = [zRun EXCEPT ![f] = next]
             /\ zOrder' = IF FileEnded(next) THEN Append(zOrder, f) ELSE zOrder
  /\ CountersAfter(zRun, zRun')
  /\ UNCHANGED <<zPc, zVariant, zFiles, zI, zComments>>
  /\ UNCHANGED OthersAnalyze

\* main.ts:435-438: every promise of the group is settled
GroupAwait ==
  /\ zPc = "awaiting"
  /\ \A f \in GroupOf(zFiles, zI) : FileEnded(zRun[f])
  /\ zComments' = zComments
                    \o GroupComments(zRun, zOrder, zI + 1, Min(zI + CONCURRENT_FILES, Len(zFiles)))
  /\ zI' = zI + CONCURRENT_FILES
  /\ zPc' = "loop"
  /\ UNCHANGED <<zVariant, zFiles, zRun, zOrder, processedFiles, skippedFiles, erroredFiles>>
  /\ UNCHANGED OthersAnalyze

\* main.ts:449-457: the counts are logged and the comments returned
AnalyzeFinish ==
  /\ zPc = "loop"
  /\ zI >= Len(zFiles)
  /\ zPc' = "done"
  /\ UNCHANGED <<zVariant, zFiles, zI, zRun, zOrder, zComments, processedFiles, skippedFiles,
                 erroredFiles>>
  /\ UNCHANGED OthersAnalyze

NextAnalyze == GroupStart \/ UnitReturn \/ FileContinue \/ GroupAwait \/ AnalyzeFinish

(***************************************************************************)
(* withRetry                                                               *)
(***************************************************************************)
OthersRetry == <<limVars, valVars, aiVars, dedupVars, pubVars, mainVars, mergeVars, parseVars, analyzeVars, similarVars>>
OthersLimiter == <<retryVars, valVars, aiVars, dedupVars, pubVars, mainVars, mergeVars, parseVars, analyzeVars, similarVars>>

NoError == [isError |-> FALSE, msg |-> "none", at |-> 0]

\* What an operation may throw: Error objects and thrown non-Error values,
\* with messages of both kinds (rate-limit signalling or not).
ErrorMessages ==
  {"socket hang up", "Rate limit exceeded", "Too Many Requests", "status 429",
   "invalid json"}

\* the characters of a message
MessageChars(msg) ==
  CASE msg = "socket hang up" -> <<"s", "o", "c", "k", "e", "t", " ", "h", "a", "n", "g", " ", "u", "p">>
    [] msg = "Rate limit exceeded" -> <<"R", "a", "t", "e", " ", "l", "i", "m", "i", "t", " ", "e", "x", "c", "e", "e", "d", "e", "d">>
    [] msg = "Too Many Requests" -> <<"T", "o", "o", " ", "M", "a", "n", "y", " ", "R", "e", "q", "u", "e", "s", "t", "s">>
    [] msg = "status 429" -> <<"s", "t", "a", "t", "u", "s", " ", "4", "2", "9">>
    [] OTHER -> <<"i", "n", "v", "a", "l", "i", "d", " ", "j", "s", "o", "n">>

\* const errorMsg = error.message.toLowerCase(); errorMsg.includes('rate limit')
\* || errorMsg.includes('too many requests') || errorMsg.includes('429')
IsRateLimitMessage(msg) ==
  LET errorMsg == ToLowerCase(MessageChars(msg))
  IN \/ Includes(errorMsg, <<"r", "a", "t", "e", " ", "l", "i", "m", "i", "t">>)
     \/ Includes(errorMsg, <<"t", "o", "o", " ", "m", "a", "n", "y", " ", "r", "e", "q", "u", "e", "s", "t", "s">>)
     \/ Includes(errorMsg, <<"4", "2", "9">>)

NextDelayMsUncapped(d, isError, msg) ==
  IF isError /\ IsRateLimitMessage(msg) THEN d * 3 ELSE d

\* The catch block's adjustment of delayMs; only an Error instance is inspected.
NextDelayMs(d, isError, msg) ==
  IF isError /\ IsRateLimitMessage(msg) THEN Min(d * 3, MAX_RETRY_DELAY) ELSE d

BackoffDelayConstant(d, k) == d

\* await delay(delayMs * attempt)
BackoffDelay(d, k) == d * k

\* The argument delayMs: RETRY_DELAY, which every caller of the repository
\* passes (it is the default as well), and the largest the cap allows
InitialDelays == {RETRY_DELAY, MAX_RETRY_DELAY}

\* for (let attempt = 1; attempt <= maxRetries; attempt++)
InLoopOffByOne(k, m) == k <= m + 1

InLoop(k, m) == k <= m

\* if (attempt < maxRetries) { await delay(...) }
HasNextAttempt(k, m) == k < m

(***************************************************************************)
(* withRateLimit, called by withRetry, under concurrent callers            *)
(***************************************************************************)
Callers == 1..NCallers

\* The names under which the callers of one stage run concurrently:
\* the files of a group all call "openai-api" (or all "anthropic-api").
ApiNames == {"openai-api", "github-api-get-content"}

NoGap == 0 - 1

LimIdle ==
  /\ now = 0
  /\ apiCallQueue = [a \in ApiNames |-> 0]
  /\ cPc = [c \in Callers |-> "done"]
  /\ cApi = [c \in Callers |-> "openai-api"]
  /\ cAttempt = [c \in Callers |-> 0]
  /\ cDelayMs = [c \in Callers |-> 0]
  /\ cWakeAt = [c \in Callers |-> 0]
  /\ cCalls = [c \in Callers |-> 0]
  /\ opGap = [a \in ApiNames |-> NoGap]

LimInit ==
  /\ now = StartTime
  /\ apiCallQueue = [a \in ApiNames |-> 0]
  /\ cPc = [c \in Callers |-> "ready"]
  /\ cApi \in [Callers -> ApiNames]
  /\ cAttempt = [c \in Callers |-> 1]
  /\ cDelayMs = [c \in Callers |-> RETRY_DELAY]
  /\ cWakeAt = [c \in Callers |-> 0]
  /\ cCalls = [c \in Callers |-> 0]
  /\ opGap = [a \in ApiNames |-> NoGap]

RetryIdle ==
  /\ rPc = "idle"
  /\ attempt = 0
  /\ maxRetries = 0
  /\ delayMs = 0
  /\ lastError = NoError
  /\ rResult = 0
  /\ outcomes = <<>>
  /\ delays = <<>>
  /\ initialDelay = 0
  /\ thrown = <<>>

RetryInit ==
  /\ maxRetries \in 1..MaxRetriesArg
  /\ attempt = 1
  /\ rPc = IF InLoop(1, maxRetries) THEN "attempt" ELSE "thrown"
  /\ delayMs \in InitialDelays
  /\ lastError = NoError
  /\ rResult = 0
  /\ outcomes = <<>>
  /\ delays = <<>>
  /\ initialDelay = delayMs
  /\ thrown = <<>>

\* try { return await operation() }: the attempt succeeds and withRetry returns.
RetryAttemptOk ==
  /\ rPc = "attempt"
  /\ outcomes' = Append(outcomes, "ok")
  /\ rResult' = attempt
  /\ rPc' = "returned"
  /\ UNCHANGED <<attempt, maxRetries, delayMs, lastError, delays, initialDelay, thrown>>
  /\ UNCHANGED OthersRetry

\* catch (error): the attempt fails; either a backoff wait is started, or this
\* was the last attempt, the loop ends and lastError is thrown.
RetryAttemptFail ==
  /\ rPc = "attempt"
  /\ \E isErr \in BOOLEAN, msg \in ErrorMessages :
       LET d == NextDelayMs(delayMs, isErr, msg) IN
       /\ outcomes' = Append(outcomes, IF isErr /\ IsRateLimitMessage(msg)
                                       THEN "ratelimit" ELSE "transient")
       /\ lastError' = [isError |-> TRUE, msg |-> msg, at |-> attempt]
       /\ thrown' = Append(thrown, [isError |-> isErr, msg |-> msg])
       /\ delayMs' = d
       /\ IF HasNextAttempt(attempt, maxRetries)
          THEN /\ delays' = Append(delays, BackoffDelay(d, attempt))
               /\ rPc' = "backoff"
               /\ attempt' = attempt
          ELSE /\ delays' = delays
               /\ attempt' = attempt + 1
               /\ rPc' = IF InLoop(attempt + 1, maxRetries) THEN "attempt" ELSE "thrown"
  /\ UNCHANGED <<maxRetries, rResult, initialDelay>>
  /\ UNCHANGED OthersRetry

\* The backoff wait ends; the loop goes to its next iteration.
RetryBackoffDone ==
  /\ rPc = "backoff"
  /\ attempt' = attempt + 1
  /\ rPc' = IF InLoop(attempt + 1, maxRetries) THEN "attempt" ELSE "thrown"
  /\ UNCHANGED <<maxRetries, delayMs, lastError, rResult, outcomes, delays, initialDelay, thrown>>
  /\ UNCHANGED OthersRetry

NextRetry == RetryAttemptOk \/ RetryAttemptFail \/ RetryBackoffDone

InitRetry == RetryInit /\ LimIdle /\ ValIdle /\ AIIdle /\ DedupIdle /\ PubIdle /\ MainIdle /\ MergeIdle /\ ParseIdle /\ AnalyzeIdle /\ SimilarIdle

SpecRetry == InitRetry /\ [][NextRetry]_vars

Failures(outs) == {i \in 1..Len(outs) : outs[i] # "ok"}

(* C3: a call of withRetry that fails twice with a transient (non rate-limit)
   error and succeeds on the third attempt returns that attempt's result after
   exactly 2 backoff waits, the second strictly longer than the first; in
   general, when withRetry returns, the number of backoff waits equals the
   number of failed attempts before the success. *)
C3_RetryDelaysMatchFailures ==
  rPc = "returned" =>
    /\ Len(delays) = Cardinality(Failures(outcomes))
    /\ outcomes = <<"transient", "transient", "ok">> =>
         /\ rResult = 3
         /\ Len(delays) = 2
         /\ delays[2] > delays[1]

C3_Witness ==
  /\ rPc = "returned"
  /\ outcomes = <<"transient", "transient", "ok">>
  /\ delays = <<RETRY_DELAY, 2 * RETRY_DELAY>>

C4_Invariant ==
  /\ Len(outcomes) <= maxRetries
  /\ rPc = "returned" =>
       /\ rResult = Len(outcomes)
       /\ outcomes[rResult] = "ok"
       /\ \A i \in 1..(rResult - 1) : outcomes[i] # "ok"
  /\ rPc = "thrown" =>
       /\ Len(outcomes) = maxRetries
       /\ \A i \in 1..maxRetries : outcomes[i] # "ok"
       /\ lastError.at = maxRetries
       /\ rResult = 0

C4_Step ==
  /\ rPc = "attempt" =>
       /\ rPc' \in {"returned", "backoff", "thrown"}
       /\ Len(outcomes') = Len(outcomes) + 1
       /\ rPc' = "returned" <=> outcomes'[Len(outcomes')] = "ok"
  /\ rPc = "backoff" => rPc' = "attempt" /\ outcomes' = outcomes
  /\ rPc \in {"returned", "thrown"} => UNCHANGED retryVars

(* C4: withRetry follows ATTEMPT -> SUCCESS | failure -> backoff -> ATTEMPT |
   final failure: the operation is invoked at most maxRetries times, the first
   successful attempt's result is returned and no attempt follows it, and when
   all maxRetries attempts fail the error of the last attempt is thrown. *)
C4_RetryStateMachine == [](C4_Invariant) /\ [][C4_Step]_vars

C4_Witness ==
  /\ rPc = "thrown"
  /\ maxRetries = MAX_RETRIES
  /\ Len(outcomes) = MAX_RETRIES
  /\ lastError.at = MAX_RETRIES

\* the failure is an Error whose message tells of rate limiting
SignalsRateLimit(e) ==
  e.isError /\ e.msg \in {"Rate limit exceeded", "Too Many Requests", "status 429"}

RECURSIVE BaseAfter(_, _, _)
\* base after the first k failures of fails, from the initial delay d0
BaseAfter(d0, fails, k) ==
  IF k = 0 THEN d0
  ELSE IF SignalsRateLimit(fails[k])
       THEN Min(BaseAfter(d0, fails, k - 1) * 3, MAX_RETRY_DELAY)
       ELSE BaseAfter(d0, fails, k - 1)

TimeToWait(lastCallTime, t) == Max(0, lastCallTime + RATE_LIMIT_DELAY - t)

\* API_CALL_QUEUE.set(apiName, Date.now()); return operation()
StartOperation(c) ==
  /\ apiCallQueue' = [apiCallQueue EXCEPT ![cApi[c]] = now]
  /\ opGap' = [opGap EXCEPT ![cApi[c]] =
                  IF apiCallQueue[cApi[c]] = 0 THEN @
                  ELSE IF @ = NoGap THEN now - apiCallQueue[cApi[c]]
                  ELSE Min(@, now - apiCallQueue[cApi[c]])]
  /\ cPc' = [cPc EXCEPT ![c] = "inOp"]

\* withRateLimit up to its first suspension: it reads the clock and the last
\* call time; with nothing to wait for it goes on to start the operation in
\* the same turn, otherwise it suspends in delay(timeToWait).
LimEnter(c) ==
  /\ cPc[c] = "ready"
  /\ LET w == TimeToWait(apiCallQueue[cApi[c]], now) IN
     IF w > 0
     THEN /\ cPc' = [cPc EXCEPT ![c] = "limited"]
          /\ cWakeAt' = [cWakeAt EXCEPT ![c] = now + w]
          /\ UNCHANGED <<apiCallQueue, opGap>>
     ELSE /\ StartOperation(c)
          /\ UNCHANGED cWakeAt
  /\ UNCHANGED <<now, cApi, cAttempt, cDelayMs, cCalls>>
  /\ UNCHANGED OthersLimiter

\* The rate-limit wait is over: the last call time is written and the
\* operation started.
LimWake(c) ==
  /\ cPc[c] = "limited"
  /\ now >= cWakeAt[c]
  /\ StartOperation(c)
  /\ cWakeAt' = [cWakeAt EXCEPT ![c] = 0]
  /\ UNCHANGED <<now, cApi, cAttempt, cDelayMs, cCalls>>
  /\ UNCHANGED OthersLimiter

\* The caller's call of withRetry is over (returned or thrown); it makes its
\* next call, if it has one.
FinishCall(c) ==
  /\ cCalls' = [cCalls EXCEPT ![c] = @ + 1]
  /\ cAttempt' = [cAttempt EXCEPT ![c] = 1]
  /\ cDelayMs' = [cDelayMs EXCEPT ![c] = RETRY_DELAY]
  /\ cPc' = [cPc EXCEPT ![c] = IF cCalls[c] + 1 < MaxCalls THEN "ready" ELSE "done"]

\* The operation resolves: withRetry returns its result.
LimOpOk(c) ==
  /\ cPc[c] = "inOp"
  /\ FinishCall(c)
  /\ UNCHANGED <<now, apiCallQueue, cApi, cWakeAt, opGap>>
  /\ UNCHANGED OthersLimiter

\* The operation rejects: withRetry's catch block.
LimOpFail(c) ==
  /\ cPc[c] = "inOp"
  /\ \E msg \in {"socket hang up", "status 429"} :
       LET d == NextDelayMs(cDelayMs[c], TRUE, msg) IN
       IF HasNextAttempt(cAttempt[c], MAX_RETRIES)
       THEN /\ cDelayMs' = [cDelayMs EXCEPT ![c] = d]
            /\ cWakeAt' = [cWakeAt EXCEPT ![c] = now + BackoffDelay(d, cAttempt[c])]
            /\ cPc' = [cPc EXCEPT ![c] = "backoff"]
            /\ UNCHANGED <<cAttempt, cCalls>>
       ELSE /\ FinishCall(c)
            /\ UNCHANGED cWakeAt
  /\ UNCHANGED <<now, apiCallQueue, cApi, opGap>>
  /\ UNCHANGED OthersLimiter

\* The backoff wait is over: the next attempt enters withRateLimit.
LimBackoffDone(c) ==
  /\ cPc[c] = "backoff"
  /\ now >= cWakeAt[c]
  /\ cAttempt' = [cAttempt EXCEPT ![c] = @ + 1]
  /\ cPc' = [cPc EXCEPT ![c] = "ready"]
  /\ cWakeAt' = [cWakeAt EXCEPT ![c] = 0]
  /\ UNCHANGED <<now, apiCallQueue, cApi, cDelayMs, cCalls, opGap>>
  /\ UNCHANGED OthersLimiter

\* Time passes.
LimTick ==
  /\ now + TimeStep <= MaxTime
  /\ now' = now + TimeStep
  /\ UNCHANGED <<apiCallQueue, cPc, cApi, cAttempt, cDelayMs, cWakeAt, cCalls, opGap>>
  /\ UNCHANGED OthersLimiter

NextLimiter ==
  \/ \E c \in Callers : LimEnter(c)
  \/ \E c \in Callers : LimWake(c)
  \/ \E c \in Callers : LimOpOk(c)
  \/ \E c \in Callers : LimOpFail(c)
  \/ \E c \in Callers : LimBackoffDone(c)
  \/ LimTick

InitLimiter == LimInit /\ RetryIdle /\ ValIdle /\ AIIdle /\ DedupIdle /\ PubIdle /\ MainIdle /\ MergeIdle /\ ParseIdle /\ AnalyzeIdle /\ SimilarIdle

SpecLimiter == InitLimiter /\ [][NextLimiter]_vars

(* C5: any two operation invocations made under the same API name through the
   rate limiter (by concurrently processed files, or as retries) are started
   at least RATE_LIMIT_DELAY ms apart. *)
C5_StartsSpaced ==
  \A a \in ApiNames : opGap[a] # NoGap => opGap[a] >= RATE_LIMIT_DELAY

\* caller d reads the entry of its API name (part_008:15) or writes it
\* (part_008:23) in the step
TouchesEntry(d) ==
  \/ cPc[d] = "ready" /\ cPc'[d] # "ready"
  \/ cPc[d] = "limited" /\ cPc'[d] = "inOp"

\* C24 as stated: while a call is between its read of the last-call time of
\* its API name and its write of the new one, no other call reads or writes
\* the entry of that API name.
C24_ReadToWriteExclusive ==
  [][\A c \in Callers :
       (cPc[c] = "limited" /\ cPc'[c] = "limited")
         => \A d \in Callers \ {c} : cApi[d] = cApi[c] => ~TouchesEntry(d)]_vars

\* a call that has nothing to wait for reads and writes in one turn: no other
\* call comes between
C24_NoWaitIsAtomic ==
  [][\A c \in Callers :
       (cPc[c] = "ready" /\ TimeToWait(apiCallQueue[cApi[c]], now) = 0 /\ cPc'[c] # "ready")
         => /\ cPc'[c] = "inOp"
            /\ apiCallQueue'[cApi[c]] = now
            /\ \A d \in Callers \ {c} : cPc'[d] = cPc[d]]_vars

(***************************************************************************)
(* SpecValidate: the validator and createComment on every finding          *)
(***************************************************************************)
InitValidate == ValInit /\ RetryIdle /\ LimIdle /\ AIIdle /\ DedupIdle /\ PubIdle /\ MainIdle /\ MergeIdle /\ ParseIdle /\ AnalyzeIdle /\ SimilarIdle

SpecValidate == InitValidate /\ [][NextValidate]_vars

\* createComment has been applied to a finding whose line number is numeric,
\* on a present file and a review unit with at least one new line
C6_Applies ==
  /\ vPc = "commented"
  /\ vFile.to # <<>>
  /\ vChunk.newLines >= 1
  /\ ~IsNaN(ToNumber(vFinding.lineNumber))
  /\ vFinding.severity.t = "string"

\* C6: for a finding with numeric line number n and a review unit covering
\* new-file lines start..end, createComment yields a comment on start when
\* n < start and on end when n > end, with a note naming n in its body, and a
\* comment on n itself without any note when start <= n <= end.
C6_LineClampedIntoUnit ==
  C6_Applies =>
    LET n == ToNumber(vFinding.lineNumber)
        start == IntNum(vChunk.newStart)
        end == IntNum(ChunkEnd(vChunk))
    IN /\ vComment.kind = "return"
       /\ ~vComment.val.isNull
       /\ NumLess(n, start) =>
            /\ vComment.val.line = start
            /\ Includes(vComment.val.body, AdjustmentNote(n))
       /\ NumLess(end, n) =>
            /\ vComment.val.line = end
            /\ Includes(vComment.val.body, AdjustmentNote(n))
       /\ (NumLeq(start, n) /\ NumLeq(n, end)) =>
            /\ vComment.val.line = n
            /\ ~Includes(vComment.val.body, NotePrefix)

\* the unit covers 10-25, the finding names line 999, the comment is on 25
C6_Witness ==
  /\ C6_Applies
  /\ vChunk = [newStart |-> 10, newLines |-> 16]
  /\ ToNumber(vFinding.lineNumber) = IntNum(999)
  /\ vComment.kind = "return"
  /\ vComment.val.line = IntNum(25)

\* C7: a finding whose line number does not parse as a number is rejected by
\* validateAIResponse and yields no comment from createComment, and neither
\* of the two throws.
C7_UnparseableLineRejected ==
  IsNaN(ToNumber(vFinding.lineNumber)) =>
    /\ vPc \in {"validated", "commented"} =>
         vValid.kind = "return" /\ vValid.val = FALSE
    /\ vPc = "commented" =>
         vComment.kind = "return" /\ vComment.val.isNull

\* lineNumber "abc" on an otherwise well-formed finding and a present file
C7_Witness ==
  /\ vPc = "commented"
  /\ vFinding.lineNumber = JsString(<<"a", "b", "c">>)
  /\ vFinding.severity \in ValidSeverities
  /\ vFinding.reviewComment = JsString(<<"o", "k">>)
  /\ vFinding.filePath = JsString(FileA)
  /\ vFile.to = FileA
  /\ vValid.kind = "return"
  /\ vComment.kind = "return"

IsPositiveInteger(n) == ~IsNaN(n) /\ IsInteger(n) /\ NumLess(IntNum(0), n)

\* C8: every finding that validateAIResponse accepts has a positive-integer
\* line number, a non-empty body of at most 65536 characters and a severity
\* among error, warning and info, whatever value lineNumber carries.
C8_AcceptedFindingWellFormed ==
  (vPc \in {"validated", "commented"} /\ vValid.kind = "return" /\ vValid.val = TRUE) =>
    /\ IsPositiveInteger(ToNumber(vFinding.lineNumber))
    /\ vFinding.reviewComment.t = "string"
    /\ StrLen(Trim(vFinding.reviewComment.s)) > 0
    /\ StrLen(vFinding.reviewComment.s) <= MAX_COMMENT_LENGTH
    /\ vFinding.severity \in ValidSeverities

(***************************************************************************)
(* SpecAI: the unit loop of processFile around getAIResponse               *)
(***************************************************************************)
InitAI == AIInit /\ RetryIdle /\ LimIdle /\ ValIdle /\ DedupIdle /\ PubIdle /\ MainIdle /\ MergeIdle /\ ParseIdle /\ AnalyzeIdle /\ SimilarIdle

SpecAI == InitAI /\ [][NextAI]_vars

C2_Invariant ==
  /\ aPc # "threw"
  /\ aPc = "gotResponse" => aResponse.kind = "return"

C2_Step ==
  (aPc = "gotResponse" /\ aResponse.kind = "return" /\ aResponse.val.isNull) =>
    /\ aPc' = "unit"
    /\ aIdx' = aIdx + 1
    /\ aComments' = aComments

\* C2: getAIResponse never throws: whatever fails inside it (every call of
\* the endpoint, the parse of the reply, the cache), it returns null or a list
\* of findings; after null processFile moves to the next review unit with its
\* comments unchanged, and processFile itself never throws.
C2_GetAIResponseNeverThrows == [](C2_Invariant) /\ [][C2_Step]_vars

\* every call of the endpoint failed, getAIResponse returned null, and the
\* file has a further unit
C2_Witness ==
  /\ aPc = "gotResponse"
  /\ aResponse.kind = "return"
  /\ aResponse.val.isNull
  /\ aCalls = MAX_RETRIES
  /\ aIdx < Len(aUnits)

\* What getAIResponse may return, with the calls of the endpoint it makes,
\* when there is no cached response to look at
NoCacheOutcomes ==
  [provider \in Providers |->
     {getAIResponse(NullResponse, provider, stream, reply) :
        stream \in ApiStreams, reply \in Replies}]

\* C20: getAIResponse has returned, never thrown; when its cache lookup met a
\* disabled or unavailable cache, no entry, an unreadable or an expired
\* entry, the endpoint of the provider was called and the response is one
\* that getAIResponse gives without a cache; only a fresh entry is returned
\* without a call.
C20_CacheMissCallsModel ==
  aPc = "gotResponse" =>
    /\ aResponse.kind = "return"
    /\ aLookup \in {"disabled", "restoreThrows", "restoreMiss", "unreadable", "expired", "fresh"}
    /\ aLookup # "fresh" =>
         /\ aCalls >= 1
         /\ WithCalls(aResponse, aCalls) \in NoCacheOutcomes[aProvider]
    /\ aLookup = "fresh" => aCalls = 0

\* an entry that does not parse, and a list of findings from the endpoint
C20_Witness ==
  /\ aPc = "gotResponse"
  /\ aCacheEnabled
  /\ aLookup = "unreadable"
  /\ aCalls >= 1
  /\ aResponse.kind = "return"
  /\ ~aResponse.val.isNull
  /\ aResponse.val.list # <<>>

\* C36: for one review unit the endpoint of the model is called at most
\* MAX_RETRIES (3) times: the provider function returns, never throws,
\* whatever its inner withRetry ended with, so the outer withRetry of
\* getAIResponse ends with its first attempt.
C36_AtMostMaxRetriesCalls ==
  /\ aCalls <= 3
  /\ aPc = "gotResponse" => aCalls <= MAX_RETRIES
  /\ \A stream \in ApiStreams, parsed \in {Throws, Returns(NullResponse), Returns(ListResponse(<<>>))} :
       /\ ProviderResponse(InnerRetry(stream, 0), parsed).kind = "return"
       /\ OuterRetry(stream, parsed, 1, 0) = ProviderResponse(InnerRetry(stream, 0), parsed)

\* the endpoint failed twice and answered the third call with findings
C36_Witness ==
  /\ aPc = "gotResponse"
  /\ aLookup # "fresh"
  /\ aCalls = 3
  /\ aResponse.kind = "return"
  /\ ~aResponse.val.isNull
  /\ aResponse.val.list # <<>>

\* the entry of the cache for the unit at hand
EntryAtHand(cacheNow) == cacheNow[aUnits[aIdx].newStart]

\* C37: in every call of getAIResponse, a fresh entry of an enabled cache is
\* returned as it is without a call of the endpoint, and a null result
\* leaves the cache as it was; the cache changes only when it is enabled,
\* and then the new entry of the unit is the list the endpoint's reply gave.
C37_HitSkipsCallNullNotCached ==
  [][(aPc = "unit" /\ aPc' = "gotResponse") =>
       /\ aLookup' = "fresh" =>
            /\ aCacheEnabled
            /\ aCalls' = 0
            /\ aResponse' = Returns(ListResponse(EntryAtHand(aCache).list))
            /\ aCache' = aCache
       /\ (aResponse'.kind = "throw" \/ aResponse'.val.isNull) => aCache' = aCache
       /\ aCache' # aCache =>
            /\ aCacheEnabled
            /\ aCalls' >= 1
            /\ EntryAtHand(aCache') = [present |-> TRUE, list |-> aResponse'.val.list]
            /\ \A k \in UnitKeys : k # aUnits[aIdx].newStart => aCache'[k] = aCache[k]]_vars

\* a fresh entry was returned without a call of the endpoint
C37_Witness ==
  /\ aPc = "gotResponse"
  /\ aCacheEnabled
  /\ aLookup = "fresh"
  /\ aCalls = 0
  /\ aResponse = Returns(ListResponse(EntryAtHand(aCache).list))
  /\ aResponse.val.list # <<>>

\* every call of the endpoint failed with the cache enabled, and the unit
\* has no entry afterwards
C37_NullLeftUncached ==
  /\ aPc = "gotResponse"
  /\ aCacheEnabled
  /\ aCalls = MAX_RETRIES
  /\ aResponse.val.isNull
  /\ ~EntryAtHand(aCache).present

(***************************************************************************)
(* SpecDedup: the duplicate filter of main                                 *)
(***************************************************************************)
InitDedup == DedupInit /\ RetryIdle /\ LimIdle /\ ValIdle /\ AIIdle /\ PubIdle /\ MainIdle /\ MergeIdle /\ ParseIdle /\ AnalyzeIdle /\ SimilarIdle

SpecDedup == InitDedup /\ [][NextDedup]_vars

SamePlace(a, b) == a.path = b.path /\ a.line = b.line

\* C9: no candidate that survives the filter has the path and line of a
\* comment that is live on the pull request or of an entry of the history the
\* run has read, whatever the bodies are.
C9_ExactMatchDropped ==
  \A i \in 1..Len(dFiltered) :
    /\ \A j \in 1..Len(dLive) : ~SamePlace(dFiltered[i], dLive[j])
    /\ \A j \in 1..Len(dHistorical) : ~SamePlace(dFiltered[i], dHistorical[j])

\* C10: of the candidates of one run, the list handed to the publisher holds
\* at most one per path and line.
C10_OnePerPlace ==
  \A i, j \in 1..Len(dSubmitted) :
    (i < j /\ dSubmitted[i] # SummaryComment /\ dSubmitted[j] # SummaryComment)
      => ~SamePlace(dSubmitted[i], dSubmitted[j])

\* the significant words of the cleaned new body found in the cleaned
\* existing body (main.ts:52)
SharedWords(newComment, existingComment) ==
  Cardinality({i \in 1..Len(SignificantWords(CleanComment(newComment))) :
                 Includes(CleanComment(existingComment),
                          SignificantWords(CleanComment(newComment))[i])})

\* C11: no candidate survives the filter when a live comment or an entry of
\* the history read lies on the same file at a line distance of at most 10,
\* distance 10 included, and the two cleaned bodies share at least 3
\* significant words.
C11_SimilarWithinTenDropped ==
  \A i \in 1..Len(dFiltered) :
    \A j \in 1..Len(dLive \o dHistorical) :
      ~ /\ (dLive \o dHistorical)[j].path = dFiltered[i].path
        /\ Abs((dLive \o dHistorical)[j].line - dFiltered[i].line) <= 10
        /\ SharedWords(dFiltered[i].body, (dLive \o dHistorical)[j].body) >= 3

\* c is an entry of the list, with its path, line and body
IsEntryOf(c, list) ==
  \E j \in 1..Len(list) :
    list[j].path = c.path /\ list[j].line = c.line /\ list[j].body = c.body

C39_UnreadableHistoryRepeats ==
  /\ dRun = 2
  /\ dPc = "done"
  /\ dHistorical = <<>>
  /\ dSubmitted # <<>>
  /\ \A i \in 1..Len(dFirstFiltered) : IsEntryOf(dFirstFiltered[i], dSubmitted)

(***************************************************************************)
(* SpecPublish: createReviewComment                                        *)
(***************************************************************************)
InitPublish == PubInit /\ RetryIdle /\ LimIdle /\ ValIdle /\ AIIdle /\ DedupIdle /\ MainIdle /\ MergeIdle /\ ParseIdle /\ AnalyzeIdle /\ SimilarIdle

SpecPublish == InitPublish /\ [][NextPublish]_vars

\* C1: every comment entry passed to createReview has a path that is a file
\* of the fetched diff and a line inside the new-line range
\* [newStart, newStart + newLines - 1] of one of that file's hunks, hunks
\* without new lines and re-pointed comments included.
C1_SentLinesInsideHunks ==
  \A i \in 1..Len(pSent) :
    /\ pDiff[pSent[i].path].present
    /\ IsLineInAnyChunk(pSent[i].line, pDiff[pSent[i].path].chunks)

\* createReviewComment has gone through its batch loop
PubLoopOver == pPc \in {"done", "threw"} /\ pFiltered # <<>>

RECURSIVE SentUpTo(_, _)
\* the valid comments of the first k batches, in order
SentUpTo(comments, k) ==
  IF k = 0 THEN <<>> ELSE SentUpTo(comments, k - 1) \o ValidBatch(Batch(comments, k))

BlankBody(comment) == comment.body = <<>> \/ Trim(comment.body) = <<>>

\* the comment was re-pointed to the start of a hunk of chunks that is
\* nearest to its line, with the explanatory prefix
RepointedToNearest(comment, adjusted, chunks) ==
  \E k \in 1..Len(chunks) :
    /\ \A j \in 1..Len(chunks) :
         Min(Abs(comment.line - chunks[k].newStart), Abs(comment.line - ChunkEnd(chunks[k])))
           <= Min(Abs(comment.line - chunks[j].newStart), Abs(comment.line - ChunkEnd(chunks[j])))
    /\ adjusted.line = chunks[k].newStart
    /\ adjusted.path = comment.path
    /\ adjusted.side = comment.side
    /\ adjusted.body = AdjustmentNote(IntNum(comment.line)) \o comment.body

\* the line of the i-th comment lies in a hunk of its file
InHunk(i) == IsLineInAnyChunk(pComments[i].line, pDiff[pComments[i].path].chunks)

\* the line of the i-th comment exists in the content getContent answered with
InFile(i) == pFetched[i] /\ pComments[i].line <= pFileLines[pComments[i].path]

PubValidated == pPc # "start" /\ Len(pValidated) = Len(pComments)

\* C30 as stated: a comment of a file outside the diff is dropped, a comment
\* whose line lies in a hunk is kept unchanged, and a comment whose line lies
\* in no hunk is re-pointed to the start of the nearest hunk when its line
\* does not exceed the file length and dropped otherwise.
C30_RevalidationAsStated ==
  PubValidated =>
    \A i \in 1..Len(pComments) :
      IF ~pDiff[pComments[i].path].present THEN ~pValidated[i].keep
      ELSE IF InHunk(i) THEN pValidated[i] = Kept(pComments[i])
      ELSE IF InFile(i)
      THEN /\ pValidated[i].keep
           /\ RepointedToNearest(pComments[i], pValidated[i].comment,
                                 pDiff[pComments[i].path].chunks)
      ELSE ~pValidated[i].keep

\* C30: a comment of a file outside the diff is dropped; a comment whose line
\* lies in a hunk is kept unchanged when its line is positive and its body is
\* not blank, and dropped otherwise; a comment whose line lies in no hunk is
\* re-pointed, with the explanatory prefix, to the start of the hunk nearest
\* to its line when getContent answered, the line does not exceed the file
\* length and the file has a hunk in the diff, and is dropped otherwise. The
\* comments handed to the batch loop are the kept ones, in order.
C30_Revalidation ==
  PubValidated =>
    /\ \A i \in 1..Len(pComments) :
         IF ~pDiff[pComments[i].path].present THEN ~pValidated[i].keep
         ELSE IF InHunk(i)
         THEN IF pComments[i].line > 0 /\ ~BlankBody(pComments[i])
              THEN pValidated[i] = Kept(pComments[i])
              ELSE ~pValidated[i].keep
         ELSE IF InFile(i) /\ pDiff[pComments[i].path].chunks # <<>>
         THEN /\ pValidated[i].keep
              /\ RepointedToNearest(pComments[i], pValidated[i].comment,
                                    pDiff[pComments[i].path].chunks)
         ELSE ~pValidated[i].keep
    /\ pFiltered = NonNull(pValidated)

\* two comments on a.ts, of 40 lines, whose diff has the hunks 1-3 and 10-11:
\* line 8, in no hunk, is re-pointed to line 10, the start of the nearer
\* second hunk, and line 30 is dropped because its content lookup failed
C30_Witness ==
  /\ PubValidated
  /\ Len(pComments) = 2
  /\ Len(pDiff[FileA].chunks) = 2
  /\ pDiff[FileA].chunks[1].newLines = 3
  /\ pDiff[FileA].chunks[2].newStart = 10
  /\ pFileLines[FileA] = 40
  /\ pComments[1] = PubComment(FileA, 8, BodyNullCheck)
  /\ pComments[2] = PubComment(FileA, 30, BodyNullCheck)
  /\ pFetched = <<TRUE, FALSE>>
  /\ pValidated[1].keep
  /\ pValidated[1].comment.line = 10
  /\ pValidated[1].comment.body = AdjustmentNote(IntNum(8)) \o BodyNullCheck
  /\ ~pValidated[2].keep
  /\ Len(pFiltered) = 1

RECURSIVE FailedBatches(_, _, _)
\* the comments of the batches among the first k whose submission failed
FailedBatches(comments, results, k) ==
  IF k = 0 THEN <<>>
  ELSE FailedBatches(comments, results, k - 1)
         \o (IF results[k] = "failed" THEN Batch(comments, k) ELSE <<>>)

\* C31 as stated: when the batch loop is over, successCount + failureCount is
\* the number of comments that passed re-validation, failedComments holds
\* exactly the comments of the batches whose submission failed, and its
\* length is failureCount.
C31_CountsAddUp ==
  PubLoopOver =>
    /\ pSuccessCount + pFailureCount = Len(pFiltered)
    /\ pFailed = FailedBatches(pFiltered, pOutcomes, Len(pOutcomes))
    /\ Len(pFailed) = pFailureCount

\* what does hold at every moment: failedComments has failureCount entries
\* and the two counts never exceed the comments of the batches handled
C31_FailedListMatchesCount ==
  /\ Len(pFailed) = pFailureCount
  /\ pSuccessCount + pFailureCount <= Len(pFiltered)

RECURSIVE BatchesUpTo(_, _)
\* the first k batches, one after the other
BatchesUpTo(comments, k) ==
  IF k = 0 THEN <<>> ELSE BatchesUpTo(comments, k - 1) \o Batch(comments, k)

\* C35: the batches partition the re-validated comments in their order,
\* every batch holds between 1 and 10 comments, and the batches are taken
\* up one at a time, each after the outcome of the one before it is known;
\* when every comment passes the batch filter the entries passed to
\* createReview are the re-validated comments, each once and in order.
C35_BatchesPartition ==
  (pPc \in {"batching", "done", "threw"} /\ pFiltered # <<>>) =>
    /\ \A k \in 1..BatchCount(pFiltered) :
         Len(Batch(pFiltered, k)) >= 1 /\ Len(Batch(pFiltered, k)) <= 10
    /\ BatchesUpTo(pFiltered, BatchCount(pFiltered)) = pFiltered
    /\ pPc = "batching" => Len(pOutcomes) = pBatch - 1 /\ pBatch <= BatchCount(pFiltered) + 1
    /\ Len(pOutcomes) <= BatchCount(pFiltered)
    /\ (PubLoopOver /\ \A i \in 1..Len(pFiltered) : ~BatchInvalid(pFiltered[i]))
         => pSent = pFiltered

\* eleven re-validated comments went out in two batches, of 10 and of 1
C35_Witness ==
  /\ PubLoopOver
  /\ Len(pFiltered) = 11
  /\ BatchCount(pFiltered) = 2
  /\ Len(Batch(pFiltered, 1)) = 10
  /\ Len(Batch(pFiltered, 2)) = 1
  /\ Len(pOutcomes) = 2
  /\ pSent = pFiltered

(***************************************************************************)
(* SpecMain: one run of main                                               *)
(***************************************************************************)
InitMain == MainInit /\ RetryIdle /\ LimIdle /\ ValIdle /\ AIIdle /\ DedupIdle /\ PubIdle /\ MergeIdle /\ ParseIdle /\ AnalyzeIdle /\ SimilarIdle

SpecMain == InitMain /\ [][NextMain]_vars

\* every surviving candidate is an entry of the stored history
SurvivorsStored ==
  \A i \in 1..Len(mFiltered) : \E j \in 1..Len(mHistory) : mHistory[j] = mFiltered[i]

\* C12 as stated: in every pull-request run with a surviving candidate, the
\* survivors are in the stored history from the store step on, whatever
\* storeCommentHistory did.
C12_SurvivorsAlwaysStored ==
  (mEvent = "pull_request" /\ mFiltered # <<>> /\ mPc \in {"stored", "publishing", "ended"})
    => SurvivorsStored

\* C12: in a pull-request run no create-review call is made before the store
\* step is over, and when the save of the history took effect the surviving
\* candidates are entries of the stored history from then on, also after a
\* publication that threw.
C12_SurvivorsStoredWhenSaved ==
  /\ mPc \in {"start", "analyzed", "filtered", "stored", "publishing"} => mReviewCalls = 0
  /\ (mEvent = "pull_request" /\ mStoreOutcome = "saved") => SurvivorsStored

C12_Witness ==
  /\ mPc = "ended"
  /\ mEvent = "pull_request"
  /\ mStoreOutcome = "saved"
  /\ mFiltered # <<>>
  /\ mReviewCalls > 0
  /\ mPubThrew
  /\ SurvivorsStored

\* C14: a pull-request run ends as failed exactly when an input error
\* occurred or comments were submitted and none of them was published.
C14_ZeroSuccessEscalated ==
  (mPc = "ended" /\ mEvent = "pull_request")
    => (mStatus = "failed" <=> (mInputError \/ (mSubmitted # <<>> /\ mSuccessCount = 0)))

\* the findings of the reply that pass the validator
ValidReviews == FilterValid(mReviews, Validations(mReviews)).val

\* the list handed to the publisher without the summary comment in front
OwnSubmitted ==
  IF mSubmitted # <<>> /\ Head(mSubmitted) = SummaryComment THEN Tail(mSubmitted)
  ELSE mSubmitted

\* the comment is on the file, on the line of the finding, and its body holds
\* the text of the finding
PlacedAs(comment, finding) ==
  /\ comment.path = FileA
  /\ comment.line = finding.lineNumber.n.m
  /\ Includes(comment.body, finding.reviewComment.s)

\* a pull-request run over the one-hunk diff, without live or historical
\* comments, that has reached publication or its end
C18_Applies ==
  /\ mEvent = "pull_request"
  /\ mPc \in {"publishing", "ended"}
  /\ mLive = <<>>
  /\ mHistorical = <<>>
  /\ ~mInputError

\* C18 as stated: the list given to the publisher holds one comment per valid
\* finding and nothing else.
C18_OnlyFindingsSubmitted ==
  C18_Applies =>
    /\ Len(mSubmitted) = Len(ValidReviews)
    /\ \A i \in 1..Len(mSubmitted) : PlacedAs(mSubmitted[i], ValidReviews[i])

\* C18: the list given to the publisher holds one comment per valid finding,
\* in order, with the path, the line and the text of the finding, and nothing
\* else but the summary comment in front of them, which is there only when
\* ENABLE_SUMMARY is on.
C18_OneCommentPerFinding ==
  C18_Applies =>
    /\ Len(OwnSubmitted) = Len(ValidReviews)
    /\ \A i \in 1..Len(OwnSubmitted) : PlacedAs(OwnSubmitted[i], ValidReviews[i])
    /\ mSubmitted # OwnSubmitted => mSummaryEnabled /\ OwnSubmitted # <<>>

\* the run of the example: one valid review for line 3, summary off
C18_Witness ==
  /\ C18_Applies
  /\ mPc = "ended"
  /\ mReviews = <<MainFinding(JsNumber(IntNum(3)), TextNullCheck)>>
  /\ Len(mSubmitted) = 1
  /\ mSubmitted[1].path = FileA
  /\ mSubmitted[1].line = 3
  /\ Includes(mSubmitted[1].body, TextNullCheck)

\* C19: in a run on a push event no call of pulls.createReview is made,
\* nothing is handed to createReviewComment, the stored comment history is
\* neither read nor written, and a run that generated comments ends as
\* successful with exactly these comments written to the log.
C19_PushOnlyLogs ==
  mEvent = "push" =>
    /\ mReviewCalls = 0
    /\ mSubmitted = <<>>
    /\ mHistoryReads = 0
    /\ mHistoryWrites = 0
    /\ mStoreOutcome = "none"
    /\ (mPc = "ended" /\ mComments # <<>>) => (mLogged = mComments /\ mStatus = "success")

C19_Witness ==
  /\ mEvent = "push"
  /\ mPc = "ended"
  /\ mCacheEnabled
  /\ mHistory # <<>>
  /\ mComments # <<>>
  /\ mLogged = mComments
  /\ mStatus = "success"

(***************************************************************************)
(* SpecMerge: the merge loop and the unit loop of processFile              *)
(***************************************************************************)
\* a required credential is not set, or the event data is missing or invalid
RequiredInputMissing ==
  \/ (mConfig.provider = "anthropic" /\ ~mConfig.anthropicKey)
  \/ (mConfig.provider = "openai" /\ ~mConfig.openaiKey)
  \/ ~mConfig.githubToken
  \/ mEventData \in {"missing", "unparsable", "incomplete"}

\* C21: in a run in which the API key of the selected provider or
\* GITHUB_TOKEN is not set, or the event data is missing or invalid, no
\* response of the model is requested and pulls.createReview is never called,
\* and the run ends failed (core.setFailed).
C21_MissingInputAborts ==
  RequiredInputMissing =>
    /\ mModelCalls = 0
    /\ mReviewCalls = 0
    /\ mPc \in {"start", "ended"}
    /\ mPc = "ended" => (mStatus = "failed" /\ mInputError)

\* the key of the selected provider is set and GITHUB_TOKEN is not
C21_Witness ==
  /\ mPc = "ended"
  /\ mStatus = "failed"
  /\ mConfig.provider = "anthropic"
  /\ mConfig.anthropicKey
  /\ ~mConfig.githubToken
  /\ mEventData = "ok"
  /\ mModelCalls = 0
  /\ mReviewCalls = 0

EntriesOf(comments) == {comments[i] : i \in 1..Len(comments)}

\* C22 as stated: over every call of storeCommentHistory, each entry of the
\* stored history before the call is an entry of it after the call, and so
\* is each comment handed to the call.
C22_HistoryAppendOnly ==
  [][(mPc = "filtered" /\ mPc' = "stored")
       => /\ EntriesOf(mHistory) \subseteq EntriesOf(mHistory')
          /\ EntriesOf(mFiltered) \subseteq EntriesOf(mHistory')]_vars

\* the first half alone: no entry of the stored history is lost by a call
C22_NoEntryLost ==
  [][(mPc = "filtered" /\ mPc' = "stored")
       => EntriesOf(mHistory) \subseteq EntriesOf(mHistory')]_vars

InitParse ==
  ParseInit /\ RetryIdle /\ LimIdle /\ ValIdle /\ AIIdle /\ DedupIdle /\ PubIdle /\ MainIdle
    /\ MergeIdle /\ AnalyzeIdle /\ SimilarIdle

SpecParse == InitParse /\ [][NextParse]_vars

ParseStages == <<"strict", "largest", "fragments">>

\* a response cut off somewhere after its opening: {"reviews":[ and complete
\* review objects, then nothing, a comma, or a comma and the beginning of
\* the next object
IsTruncated(content) ==
  /\ Len(content) >= 2
  /\ content[1].t = "head"
  /\ \E k \in 2..Len(content) :
       /\ IsObjectList(content, 2, k)
       /\ \/ k = Len(content)
          \/ k + 1 = Len(content) /\ content[k + 1].t = "comma"
          \/ k + 2 = Len(content) /\ content[k + 1].t = "comma" /\ content[k + 2].t = "cut"

\* the complete review objects of a content that validateAIResponse accepts
ValidObjectsOf(content) ==
  {content[i].review : i \in {k \in 1..Len(content) :
      content[k].t = "obj" /\ validateAIResponse(content[k].review) = Returns(TRUE)}}

\* C23 as stated: when the parsing of a response of either provider is over,
\* the stages tried are a beginning of strict parse, largest-object
\* extraction, per-fragment extraction; the empty result is given only after
\* all three were tried; and a truncated response with a complete valid
\* review object yields a list holding such a review.
C23_StagesFallThrough ==
  sPc = "done" =>
    /\ \A i \in 1..Len(sTried) : i <= Len(ParseStages) /\ sTried[i] = ParseStages[i]
    /\ sResult.isNull => sTried = ParseStages
    /\ (IsTruncated(sContent) /\ ValidObjectsOf(sContent) # {})
         => /\ ~sResult.isNull
            /\ \E i \in 1..Len(sResult.list) : sResult.list[i] \in ValidObjectsOf(sContent)

\* the order alone: the stages tried are a beginning of the three, for
\* either provider
C23_StagesInOrder ==
  \A i \in 1..Len(sTried) : i <= Len(ParseStages) /\ sTried[i] = ParseStages[i]

\* a response of OpenAI cut off right behind a complete valid review object,
\* or behind the comma that follows it, yields that review
C23_CutBehindObjectSalvaged ==
  (/\ sPc = "done"
   /\ sProvider = "openai"
   /\ IsTruncated(sContent)
   /\ sContent[Len(sContent)].t # "cut"
   /\ Len(sContent) <= 3
   /\ ValidObjectsOf(sContent) # {})
    => /\ ~sResult.isNull
       /\ \E i \in 1..Len(sResult.list) : sResult.list[i] \in ValidObjectsOf(sContent)

InitMerge ==
  MergeInit /\ RetryIdle /\ LimIdle /\ ValIdle /\ AIIdle /\ DedupIdle /\ PubIdle /\ MainIdle
    /\ ParseIdle /\ AnalyzeIdle /\ SimilarIdle

SpecMerge == InitMerge /\ [][NextMerge]_vars

\* the gap between two consecutive hunks of the file, in new lines
HunkGap(prev, next) == next.newStart - (prev.newStart + prev.newLines)

\* C15: when the merge loop is over, a file whose gaps are all at most 50 and
\* whose hunks add up to at most 80% of MAX_CHUNK_TOTAL_LINES has given one
\* unit, and a file whose gaps all exceed 50 has given one unit per hunk.
C15_UnitCount ==
  gPc \in {"units", "done"} =>
    /\ ( /\ \A i \in 1..(Len(gChunks) - 1) : HunkGap(gChunks[i], gChunks[i + 1]) <= 50
         /\ 10 * TotalSize(gChunks) <= 8 * MAX_CHUNK_TOTAL_LINES )
       => Len(gMerged) = 1
    /\ (\A i \in 1..(Len(gChunks) - 1) : HunkGap(gChunks[i], gChunks[i + 1]) > 50)
       => Len(gMerged) = Len(gChunks)

\* the second half of C15 alone
C15_FarApartNeverMerged ==
  gPc \in {"units", "done"} =>
    ((\A i \in 1..(Len(gChunks) - 1) : HunkGap(gChunks[i], gChunks[i + 1]) > 50)
       => Len(gMerged) = Len(gChunks))

\* C16: every unit sent to the model has at most MAX_CHUNK_TOTAL_LINES lines,
\* new and old together, its new lines being the span from its first hunk's
\* start to its last hunk's end.
C16_SentUnitsWithinCeiling ==
  \A i \in 1..Len(gSent) : gSent[i].newLines + gSent[i].oldLines <= MAX_CHUNK_TOTAL_LINES

\* a sent unit built by two merges, whose span covers the two gaps
C16_Witness ==
  /\ gPc = "done"
  /\ Len(gChunks) = 3
  /\ Len(gSent) = 1
  /\ gSent[1].newLines > TotalSize(gChunks)
  /\ gSent[1].newLines + gSent[1].oldLines <= MAX_CHUNK_TOTAL_LINES

\* the numbers createPrompt writes before the change lines of a unit are
\* strictly increasing
StrictlyIncreasing(changes) ==
  /\ \A i \in 1..Len(changes) : changes[i].count > 1 => changes[i].has # "none"
  /\ \A i \in 1..(Len(changes) - 1) : RenderedLast(changes[i]) < RenderedFirst(changes[i + 1])

\* C17: in every unit sent to the model the line numbers of the change lines,
\* as createPrompt renders them, are strictly increasing.
C17_PromptLinesIncreasing ==
  \A i \in 1..Len(gSent) : StrictlyIncreasing(gSent[i].changes)

\* the added and the removed lines of a hunk or an accumulator, counted
AddedRemoved(chunk) ==
  LET RECURSIVE Count(_)
      Count(i) == IF i > Len(chunk.changes) THEN 0
                  ELSE (IF chunk.changes[i].type \in {"add", "del"}
                        THEN chunk.changes[i].count ELSE 0) + Count(i + 1)
  IN Count(1)

IsPlaceholder(run) == run.has = "none"
IsDiffChange(run) == ~IsPlaceholder(run)

RECURSIVE DiffChanges(_)
\* the changes of the units one after the other, the placeholder lines of
\* the merge loop left out
DiffChanges(chunks) ==
  IF chunks = <<>> THEN <<>>
  ELSE SelectSeq(Head(chunks).changes, IsDiffChange) \o DiffChanges(Tail(chunks))

\* when the merge loop is over the units, in order, hold the changes of the
\* hunks, in order, each once
UnitsCoverHunks ==
  gPc \in {"units", "done"} => DiffChanges(gMerged) = DiffChanges(gChunks)

\* the rule of the claim: added and removed lines of both together under 80%
\* of MAX_CHUNK_TOTAL_LINES, and a gap of at most 50 lines
ClaimedToMerge(current, chunk) ==
  /\ 10 * (AddedRemoved(current) + AddedRemoved(chunk)) < 8 * MAX_CHUNK_TOTAL_LINES
  /\ MergeGap(current, chunk) <= 50

MergeStepAsClaimed ==
  (gPc = "merging" /\ gCurrent # <<>> /\ gIdx <= Len(gChunks))
    => IF ClaimedToMerge(gCurrent[1], gChunks[gIdx])
       THEN gMerged' = gMerged /\ Len(gCurrent') = 1
              /\ DiffChanges(gCurrent') = DiffChanges(gCurrent) \o gChunks[gIdx].changes
       ELSE gMerged' = Append(gMerged, gCurrent[1]) /\ gCurrent' = <<gChunks[gIdx]>>

\* C27 as stated: the next hunk is merged into the accumulator exactly when
\* the added and removed lines of the two stay under 80% of
\* MAX_CHUNK_TOTAL_LINES and the gap is at most 50, otherwise the accumulator
\* is closed and the hunk starts a new one; and the units cover the hunks in
\* order, none lost, none twice.
C27_MergeRule == [](UnitsCoverHunks) /\ [][MergeStepAsClaimed]_vars

\* the second half of C27 alone
C27_NoHunkLostOrDuplicated == [](UnitsCoverHunks)

IsSentUnit(chunk) == ~SkippedUnit(chunk)

AddedLines(chunk) ==
  LET RECURSIVE Count(_)
      Count(i) == IF i > Len(chunk.changes) THEN 0
                  ELSE (IF chunk.changes[i].type = "add" THEN chunk.changes[i].count ELSE 0)
                         + Count(i + 1)
  IN Count(1)

\* C29 as stated: every unit sent to the model holds at least one added
\* line.
C29_SentUnitsAddLines ==
  \A k \in 1..Len(gSent) : AddedLines(gSent[k]) > 0

\* what the code keeps: every unit sent has newLines > 0
C29_SentUnitsHaveNewLines ==
  \A k \in 1..Len(gSent) : gSent[k].newLines > 0

\* a unit of removed lines alone, no unchanged line with them and no merge
\* behind it, is not sent
C29_BareRemovalNotSent ==
  \A k \in 1..Len(gSent) :
    ~(Len(gSent[k].changes) = 1 /\ gSent[k].changes[1].type = "del")

(***************************************************************************)
(* SpecAnalyze: analyzeCode over the files of one diff                     *)
(***************************************************************************)
InitAnalyze ==
  AnalyzeInit /\ RetryIdle /\ LimIdle /\ ValIdle /\ AIIdle /\ DedupIdle /\ PubIdle /\ MainIdle
    /\ MergeIdle /\ ParseIdle /\ SimilarIdle

SpecAnalyze == InitAnalyze /\ [][NextAnalyze]_vars

\* the files whose callback has started and not ended
FilesRunning == {f \in 1..Len(zRun) : zRun[f].state = "running"}

\* the units whose getAIResponse is pending; each has at most one request to
\* the model outstanding, withRetry making its attempts one after the other
UnitsInFlight ==
  {fu \in (1..Len(zRun)) \X (1..MaxFileUnits) :
     zRun[fu[1]].state = "running" /\ zRun[fu[1]].phase[fu[2]] = "calling"}

\* C32: at most 3 files are being processed, no file of a later group has
\* started before every file of the groups before it has ended, at most 2
\* units of one file are being processed at once, and at most 6 calls of the
\* model are outstanding.
C32_BoundedConcurrency ==
  /\ Cardinality(FilesRunning) <= 3
  /\ \A f \in 1..Len(zRun) :
       zRun[f].state # "pending" =>
         \A g \in 1..Len(zRun) : (g - 1) \div 3 < (f - 1) \div 3 => FileEnded(zRun[g])
  /\ \A f \in 1..Len(zRun) : Cardinality({fu \in UnitsInFlight : fu[1] = f}) <= 2
  /\ Cardinality(UnitsInFlight) <= 6

\* three files of one group, each with two units in flight
C32_Witness ==
  /\ zVariant = "part_004"
  /\ Cardinality(FilesRunning) = 3
  /\ Cardinality(UnitsInFlight) = 6

\* a file of the second group is running
C32_SecondGroupRuns == \E f \in FilesRunning : f > 3

RECURSIVE ExpectedComments(_, _)
\* the results of the units of the files 1..n that returned, by file, then
\* by unit, then by finding
ExpectedComments(run, n) ==
  IF n = 0 THEN <<>>
  ELSE ExpectedComments(run, n - 1)
         \o (IF run[n].state = "returned" THEN FlatUnits(run[n].res, 1, MaxFileUnits) ELSE <<>>)

ComesBefore(a, b) ==
  \/ a.file < b.file
  \/ a.file = b.file /\ a.unit < b.unit
  \/ a.file = b.file /\ a.unit = b.unit /\ a.finding < b.finding

\* C33: the list analyzeCode returns is ordered by file position, then by
\* unit, then by finding, and is the one list determined by the files and
\* the results of their units, whatever the order in which the files of a
\* group ended.
C33_OrderedByFileUnitFinding ==
  zPc = "done" =>
    /\ zComments = ExpectedComments(zRun, Len(zFiles))
    /\ \A i, j \in 1..Len(zComments) : i < j => ComesBefore(zComments[i], zComments[j])

\* a later file of a group ended before an earlier one, both with comments
C33_Witness ==
  /\ zPc = "done"
  /\ \E i, j \in 1..Len(zOrder) :
       /\ i < j
       /\ zOrder[i] > zOrder[j]
       /\ (zOrder[i] - 1) \div CONCURRENT_FILES = (zOrder[j] - 1) \div CONCURRENT_FILES
       /\ zRun[zOrder[i]].comments # <<>>
       /\ zRun[zOrder[j]].comments # <<>>

\* C38 as stated: at the end of analyzeCode the three counts add up to the
\* number of files analysed.
C38_CountsAddUp ==
  (zPc = "done" /\ zVariant = "main.ts") =>
    processedFiles + skippedFiles + erroredFiles = Len(zFiles)

\* what the counts are at the end: the skipped and the failed files are
\* counted, the files that were processed are not
C38_SkippedAndErroredCounted ==
  (zPc = "done" /\ zVariant = "main.ts") =>
    /\ skippedFiles = CountIn(zRun, 1..Len(zRun), "skipped")
    /\ erroredFiles = CountIn(zRun, 1..Len(zRun), "failed")
    /\ processedFiles = 0

(***************************************************************************)
(* SpecSimilar: isCommentSimilar on one pair of texts                      *)
(***************************************************************************)
InitSimilar ==
  SimilarInit /\ RetryIdle /\ LimIdle /\ ValIdle /\ AIIdle /\ DedupIdle /\ PubIdle /\ MainIdle
    /\ MergeIdle /\ ParseIdle /\ AnalyzeIdle

SpecSimilar == InitSimilar /\ [][NextSimilar]_vars

\* the significant words of the two cleaned texts, as sets
NewWordSet == SeqRange(SignificantWords(CleanComment(yNew)))
ExistingWordSet == SeqRange(SignificantWords(CleanComment(yExisting)))
SmallerSetSize == Min(Cardinality(NewWordSet), Cardinality(ExistingWordSet))

\* the fraction of shared significant words, of the smaller set, exceeds
\* tenths / 10
FractionExceeds(tenths) ==
  /\ SmallerSetSize > 0
  /\ 10 * Cardinality(NewWordSet \cap ExistingWordSet) > tenths * SmallerSetSize

BothLong == StrLen(CleanComment(yNew)) >= 40 /\ StrLen(CleanComment(yExisting)) >= 40

OneContainsOther ==
  \/ Includes(CleanComment(yNew), CleanComment(yExisting))
  \/ Includes(CleanComment(yExisting), CleanComment(yNew))

\* C34 as stated: with a cleaned text shorter than 40 characters the two are
\* similar only if the fraction of shared significant words exceeds 0.8;
\* with both of 40 characters or more they are similar if it exceeds 0.6.
C34_ThresholdByLength ==
  yPc = "done" =>
    IF BothLong THEN (FractionExceeds(6) => ySimilar)
    ELSE (ySimilar => FractionExceeds(8))

\* what the function does: with both texts of 40 characters or more the
\* fraction is not looked at, and the two are similar exactly when they
\* share three significant words or one contains the other; with a shorter
\* text a fraction above 0.8 is one more way of being similar
C34_FractionOnlyForShort ==
  yPc = "done" =>
    (ySimilar <=>
       \/ SharedWords(yNew, yExisting) >= 3
       \/ OneContainsOther
       \/ ~BothLong /\ FractionExceeds(8))

\* two texts of 40 characters or more, two of three significant words
\* shared, neither containing the other: not similar
C34_LongPairNotSimilar ==
  /\ yPc = "done"
  /\ BothLong
  /\ FractionExceeds(6)
  /\ SharedWords(yNew, yExisting) < 3
  /\ ~OneContainsOther
  /\ ~ySimilar

(***************************************************************************)
(* SpecTerminates: one of the loops of a run at a time (a call of          *)
(* withRetry, of analyzeCode or of createReviewComment), every external    *)
(* call returning or failing in the end: a step that is possible is taken  *)
(***************************************************************************)
InitRuns == InitRetry \/ InitAnalyze \/ InitPublish

NextRuns == NextRetry \/ NextAnalyze \/ NextPublish

SpecTerminates == InitRuns /\ [][NextRuns]_vars /\ WF_vars(NextRuns)

\* the loop at hand has ended: withRetry returned or threw, analyzeCode
\* returned, createReviewComment returned or threw
RunEnded ==
  \/ rPc \in {"returned", "thrown"}
  \/ zPc = "done"
  \/ pPc \in {"done", "threw"}

\* C40: every run reaches a terminal state: withRetry ends after at most
\* maxRetries attempts, analyzeCode after its last file group and
\* createReviewComment after its last batch.
C40_RunTerminates ==
  /\ <>RunEnded
  /\ [](attempt <= maxRetries + 1 /\ Len(outcomes) <= maxRetries)
  /\ [](zI <= Len(zFiles) + CONCURRENT_FILES - 1)
  /\ [](Len(pOutcomes) <= BatchCount(pFiltered))

\* withRetry made maxRetries attempts, every one of them failed, and it threw
C40_Witness ==
  /\ rPc = "thrown"
  /\ maxRetries = MAX_RETRIES
  /\ Len(outcomes) = MAX_RETRIES
  /\ RunEnded

====
